---- MODULE Spec2Model ----
(***************************************************************************)
(* Meeting planner: the dialog state graph (classify, extract, check,      *)
(* ask / confirm, create, general reply), the chat endpoint that persists  *)
(* the session, and the MCP calendar client (connect, disconnect,          *)
(* reconnect, call_tool) that the create_meeting node drives.              *)
(*                                                                         *)
(* Every `await` of the source is a scheduling point: an action ends where *)
(* the coroutine suspends and the next one starts where it resumes.        *)
(***************************************************************************)
EXTENDS Integers, Sequences, FiniteSets, TLC

\* ------------------------------------------------------------------ bounds
MaxTurns == 3        \* chat requests accepted per session
MaxStacks == 2       \* AsyncExitStack objects that exist at one time
MaxProcs == 2        \* provider processes / sessions that exist at one time
MaxConcTurns == 2    \* chat requests per session in the concurrent specification
MaxRetryTurns == 4   \* chat requests per session in the retry specification

Main == 0                      \* the lifespan coroutine
StackIds == 1..MaxStacks
ProcIds == 1..MaxProcs
SeqTasks == {1}                \* one request handler at a time
ConcTasks == {1, 2}            \* two request handlers on the event loop
AllTasks == {Main} \cup ConcTasks
SeqSessions == {"s1"}
ConcSessions == {"s1", "s2"}
NoId == 0                      \* Python None for a handle

\* ------------------------------------------------------------- value model
\* A JSON / Python value of a slot: None, a string (a sequence of
\* characters) or a list (a sequence of items).  A missing dict key is a
\* field outside DOMAIN.
None == <<"none", <<>>>>
Str(cs) == <<"str", cs>>
List(xs) == <<"list", xs>>
EmptyDict == [k \in {} |-> None]

\* dict.get(k): None when the key is missing.
Get(d, k) == IF k \in DOMAIN d THEN d[k] ELSE None


\* d[k] = v on a copy
Put(d, k, v) == [x \in (DOMAIN d) \cup {k} |-> IF x = k THEN v ELSE d[x]]

\* Python truthiness of a slot value (`if info.get(f)`, `not info.get(f)`)
Truthy(v) == v[1] # "none" /\ v[2] # <<>>

\* `val is None or val == "" or val == []`
IsEmptyVal(v) == v = None \/ v = Str(<<>>) \/ v = List(<<>>)

Fields == <<"title", "date", "start_time", "end_time", "timezone", "participants", "description">>
REQUIRED_FIELDS == <<"title", "date", "start_time", "participants">>
DEFAULT_TIMEZONE == Str(<<"Asia/Kolkata">>)

Statuses == {"idle", "collecting", "confirming", "created", "error"}
Intents == {"new_request", "confirmation", "denial", "modification", "general"}

\* --------------------------------------------------------- clock arithmetic
Digits == <<"0", "1", "2", "3", "4", "5", "6", "7", "8", "9">>
IsDigit(c) == \E i \in 1..10 : Digits[i] = c
DigitVal(c) == (CHOOSE i \in 1..10 : Digits[i] = c) - 1

\* value of a 1- or 2-digit field, -1 when it is not one
NumField(cs) ==
    IF Len(cs) = 1 /\ IsDigit(cs[1]) THEN DigitVal(cs[1])
    ELSE IF Len(cs) = 2 /\ IsDigit(cs[1]) /\ IsDigit(cs[2])
         THEN 10 * DigitVal(cs[1]) + DigitVal(cs[2])
         ELSE -1

ColonAt(cs) == IF \E i \in 1..Len(cs) : cs[i] = ":"
               THEN CHOOSE i \in 1..Len(cs) : cs[i] = ":" /\ \A j \in 1..(i-1) : cs[j] # ":"
               ELSE 0

\* datetime.strptime(s, "%H:%M"): minutes since midnight, -1 for ValueError
Strptime(v) ==
    IF v[1] # "str" THEN -1
    ELSE LET cs == v[2]
             c == ColonAt(cs)
         IN IF c = 0 THEN -1
            ELSE LET h == NumField(SubSeq(cs, 1, c - 1))
                     m == NumField(SubSeq(cs, c + 1, Len(cs)))
                 IN IF h < 0 \/ h > 23 \/ m < 0 \/ m > 59 THEN -1 ELSE 60 * h + m

\* strftime("%H:%M") of a time of day given in minutes
Strftime(mins) ==
    LET h == mins \div 60
        m == mins % 60
    IN Str(<<Digits[(h \div 10) + 1], Digits[(h % 10) + 1], ":",
             Digits[(m \div 10) + 1], Digits[(m % 10) + 1]>>)

MinutesPerDay == 1440
MinutesPerHour == 60

\* an hour later on a clock that does not wrap at midnight
PlusOneHourNoWrap(mins) == Strftime(mins + MinutesPerHour)

\* (st + timedelta(hours=1)).strftime("%H:%M"): the date part is dropped
PlusOneHour(mins) == Strftime((mins + MinutesPerHour) % MinutesPerDay)

\* ------------------------------------------------------------ slot-set logic
\* a completeness check that looks at every field of the slot set
MissingOverAllFields(info) ==
    SelectSeq(Fields, LAMBDA f : IsEmptyVal(Get(info, f)))

\* _missing_fields: the required fields that are None, "" or [], in order
_missing_fields(info) ==
    SelectSeq(REQUIRED_FIELDS, LAMBDA f : IsEmptyVal(Get(info, f)))

\* the merge loop of extract_details_node: a parsed value is copied only
\* when it is not None, not "" and not []
MergedFields(parsed) ==
    {Fields[i] : i \in {j \in 1..Len(Fields) : ~IsEmptyVal(Get(parsed, Fields[j]))}}

\* a merge that copies every key the extraction carries, empty or not
MergeParsedOverwrite(info, parsed) ==
    [k \in (DOMAIN info) \cup (DOMAIN parsed) |->
        IF k \in DOMAIN parsed THEN parsed[k] ELSE info[k]]

\* a merge that starts from the extraction instead of the slot set
MergeParsedReplace(info, parsed) ==
    IF MergedFields(parsed) = {} THEN info
    ELSE [k \in MergedFields(parsed) |-> parsed[k]]

\* a merge whose filter is only `new_val is not None`: "" and [] go in
MergeParsedSkipNone(info, parsed) ==
    [k \in (DOMAIN info) \cup {f \in DOMAIN parsed : parsed[f] # None} |->
        IF k \in DOMAIN parsed /\ parsed[k] # None THEN parsed[k] ELSE info[k]]

MergeParsed(info, parsed) ==
    [k \in (DOMAIN info) \cup MergedFields(parsed) |->
        IF k \in MergedFields(parsed) THEN parsed[k] ELSE info[k]]

\* default timezone
ApplyTimezone(info) ==
    IF ~Truthy(Get(info, "timezone")) THEN Put(info, "timezone", DEFAULT_TIMEZONE) ELSE info

\* a derivation that runs whenever start_time parses
ApplyEndTimeAlways(info) ==
    IF Truthy(Get(info, "start_time")) /\ Strptime(info["start_time"]) >= 0
    THEN Put(info, "end_time", PlusOneHour(Strptime(info["start_time"])))
    ELSE info

\* auto end_time: start_time + 1 hour when end_time is unset and
\* start_time parses; a ValueError leaves the slots alone
ApplyEndTime(info) ==
    IF Truthy(Get(info, "start_time")) /\ ~Truthy(Get(info, "end_time"))
    THEN LET st == Strptime(info["start_time"])
         IN IF st >= 0 THEN Put(info, "end_time", PlusOneHour(st)) ELSE info
    ELSE info

\* the meeting_info extract_details_node returns
ExtractInfo(info, parsed) == ApplyEndTime(ApplyTimezone(MergeParsed(info, parsed)))

\* ------------------------------------------------------------------ routing
\* a router that takes a confirmation to create_meeting at any status
RouteConfirmAnywhere(intent, status) ==
    IF intent = "confirmation" THEN "create_meeting"
    ELSE IF intent \in {"new_request", "modification"} THEN "extract_details"
    ELSE "general_response"

\* a router whose first branch (create_meeting) is missing
RouteWithoutCreate(intent, status) ==
    IF intent \in {"new_request", "modification", "confirmation"} THEN "extract_details"
    ELSE "general_response"

_route_after_classify(intent, status) ==
    IF intent = "confirmation" /\ status = "confirming" THEN "create_meeting"
    ELSE IF intent = "denial" THEN "general_response"
    ELSE IF intent \in {"new_request", "modification"} THEN "extract_details"
    ELSE IF intent = "confirmation" /\ status # "confirming" THEN "general_response"
    ELSE "general_response"

\* an edge that sends an incomplete slot set back to extraction
RouteIncompleteToExtract(intent) ==
    IF intent = "complete" THEN "present_confirmation" ELSE "extract_details"

\* an edge that sends an incomplete slot set on to the tool
RouteIncompleteToCreate(intent) ==
    IF intent = "complete" THEN "present_confirmation" ELSE "create_meeting"

_route_after_completeness(intent) ==
    IF intent = "complete" THEN "present_confirmation" ELSE "ask_missing"

\* ---------------------------------------------------------------- the state
VARIABLES
    sessions,     \* _sessions: session id -> [messages, meeting_info, status]
    client,       \* MCPCalendarClient: [connected, session, stack]
    stackProcs,   \* stack id -> provider processes whose stdio context it holds
    stackSess,    \* stack id -> ClientSessions (named by their process) it holds
    task          \* coroutine id -> its position and locals (0 is the lifespan)

vars == <<sessions, client, stackProcs, stackSess, task>>

NewSession == [messages |-> <<>>, meeting_info |-> EmptyDict, status |-> "idle"]

NewClient == [connected |-> FALSE, session |-> NoId, stack |-> NoId]

NewTask ==
    [pc |-> "idle", sid |-> "", text |-> "",
     status |-> "idle", meeting_info |-> EmptyDict, intent |-> "", response |-> "",
     ctx |-> "", caller |-> "", attempt |-> 0, cs |-> NoId, proc |-> NoId, onSess |-> NoId,
     result |-> "", fails |-> <<>>, parsed |-> EmptyDict,
     \* history of the turn, read by the properties only
     status0 |-> "idle", info0 |-> EmptyDict, connSeen |-> FALSE,
     visited |-> <<>>, nRespond |-> 0, nAttempts |-> 0, nReconnects |-> 0, nCalls |-> 0,
     faulted |-> FALSE, connFail |-> "", tearFail |-> FALSE,
     \* the provider's side of the call: the attempt in flight has been
     \* executed, and the events the calendar holds for this call
     served |-> FALSE, created |-> 0]

Init ==
    /\ sessions = [s \in {} |-> NewSession]
    /\ client = NewClient
    /\ stackProcs = [s \in StackIds |-> {}]
    /\ stackSess = [s \in StackIds |-> {}]
    /\ task = [p \in AllTasks |-> IF p = Main THEN [NewTask EXCEPT !.pc = "boot"] ELSE NewTask]

\* ------------------------------------------------------- the client machine
\* A coroutine runs without interruption from one `await` to the next.  The
\* positions below are the statements between two awaits; Sync is one such
\* statement and Settle runs them until the coroutine suspends.  m is the
\* coroutine's record r, the client c and the resources sp, ss it can see;
\* busyS / busyP are the handles other suspended coroutines still hold.
TransientPcs ==
    {"x_connect", "x_script", "x_except", "x_except2", "x_conn_ret", "x_conn_raise",
     "x_attempt", "x_attempt_fail", "x_reconnect", "x_disconnect", "x_disc_done",
     "x_call_tool", "x_node", "x_ret", "x_raise", "x_list_tools"}

Machine(p) ==
    [r |-> task[p], c |-> client, sp |-> stackProcs, ss |-> stackSess,
     busyS |-> {task[q].cs : q \in AllTasks \ {p}},
     busyP |-> {task[q].proc : q \in AllTasks \ {p}} \cup {task[q].onSess : q \in AllTasks \ {p}}]

MinOf(S) == CHOOSE x \in S : \A y \in S : x <= y

\* AsyncExitStack(): an object no one else refers to (NoId: the bound is reached)
FreshStack(m) ==
    LET used == {m.c.stack} \cup m.busyS
                \cup {s \in StackIds : m.sp[s] # {} \/ m.ss[s] # {}}
        free == StackIds \ used
    IN IF free = {} THEN NoId ELSE MinOf(free)

\* a new provider process (NoId: the bound is reached)
FreshProc(m) ==
    LET used == {m.c.session} \cup m.busyP
                \cup UNION {m.sp[s] : s \in StackIds} \cup UNION {m.ss[s] : s \in StackIds}
        free == ProcIds \ used
    IN IF free = {} THEN NoId ELSE MinOf(free)

\* stack.__aexit__: every context the stack holds is closed
CloseStack(f, s) == IF s = NoId THEN f ELSE [f EXCEPT ![s] = {}]

\* a connect() without the `if self._connected: return` of its first line
ConnectHeadAlwaysConnects(m, scriptOk) ==
    IF m.r.pc = "x_connect"
    THEN IF FreshStack(m) = NoId
         THEN [m EXCEPT !.r.pc = "stuck"]
         ELSE [m EXCEPT !.c.stack = FreshStack(m), !.r.pc = "x_script"]
    ELSE IF scriptOk
         THEN [m EXCEPT !.r.pc = "c_spawn", !.r.cs = m.c.stack]
         ELSE [m EXCEPT !.r.pc = "x_except", !.r.faulted = TRUE, !.r.connFail = "script"]

\* connect(), up to the spawn: no-op when connected, else a new stack and
\* the script check
ConnectHead(m, scriptOk) ==
    IF m.r.pc = "x_connect"
    THEN IF m.c.connected
         THEN [m EXCEPT !.r.pc = "x_conn_ret"]
         ELSE IF FreshStack(m) = NoId
              THEN [m EXCEPT !.r.pc = "stuck"]
              ELSE [m EXCEPT !.c.stack = FreshStack(m), !.r.pc = "x_script"]
    ELSE \* x_script: os.path.exists(server_script)
         IF scriptOk
         THEN [m EXCEPT !.r.pc = "c_spawn", !.r.cs = m.c.stack]
         ELSE [m EXCEPT !.r.pc = "x_except", !.r.faulted = TRUE, !.r.connFail = "script"]

\* an except clause that drops the stack without closing it
ConnectExceptNoCleanup(m) ==
    [m EXCEPT !.c.connected = FALSE, !.c.stack = NoId, !.c.session = NoId,
              !.r.pc = "x_conn_raise", !.r.cs = NoId, !.r.proc = NoId, !.r.onSess = NoId]

\* an except clause that forgets `self._session = None`
ConnectExceptKeepsSession(m) ==
    IF m.r.pc = "x_except"
    THEN IF m.c.stack # NoId
         THEN [m EXCEPT !.c.connected = FALSE, !.r.pc = "c_cleanup", !.r.cs = m.c.stack,
                        !.r.proc = NoId, !.r.onSess = NoId]
         ELSE [m EXCEPT !.c.connected = FALSE, !.r.pc = "x_except2",
                        !.r.proc = NoId, !.r.onSess = NoId]
    ELSE [m EXCEPT !.c.stack = NoId, !.r.pc = "x_conn_raise", !.r.cs = NoId]

\* connect()'s except clause: flag down, partial stack closed, handles dropped
ConnectExcept(m) ==
    IF m.r.pc = "x_except"
    THEN IF m.c.stack # NoId
         THEN [m EXCEPT !.c.connected = FALSE, !.r.pc = "c_cleanup", !.r.cs = m.c.stack,
                        !.r.proc = NoId, !.r.onSess = NoId]
         ELSE [m EXCEPT !.c.connected = FALSE, !.r.pc = "x_except2",
                        !.r.proc = NoId, !.r.onSess = NoId]
    ELSE \* x_except2: after the cleanup
         [m EXCEPT !.c.stack = NoId, !.c.session = NoId, !.r.pc = "x_conn_raise",
                   !.r.cs = NoId]

\* where disconnect() returns to: the lifespan, its direct caller, or
\* _reconnect, which goes on into connect()
AfterDisconnect(ctx) ==
    CASE ctx = "shutdown" -> "stopped"
      [] ctx = "disconnect" -> "x_ret"
      [] OTHER -> "x_connect"

\* a disconnect() that lets the failure of the teardown out
DisconnectRaising(m) ==
    IF m.r.pc = "x_disconnect"
    THEN IF m.c.stack # NoId
         THEN [m EXCEPT !.r.pc = "d_exit", !.r.cs = m.c.stack]
         ELSE [m EXCEPT !.r.pc = AfterDisconnect(m.r.ctx)]
    ELSE IF m.r.tearFail
         THEN [m EXCEPT !.r.cs = NoId,
                        !.r.pc = IF m.r.ctx = "disconnect" THEN "x_raise" ELSE "x_attempt_fail"]
         ELSE [m EXCEPT !.c.session = NoId, !.c.stack = NoId, !.c.connected = FALSE,
                        !.r.cs = NoId,
                        !.r.pc = AfterDisconnect(m.r.ctx)]

\* disconnect(): closes the stack when there is one, then clears the fields
Disconnect(m) ==
    IF m.r.pc = "x_disconnect"
    THEN IF m.c.stack # NoId
         THEN [m EXCEPT !.r.pc = "d_exit", !.r.cs = m.c.stack]
         ELSE [m EXCEPT !.r.pc = AfterDisconnect(m.r.ctx)]
    ELSE \* x_disc_done: after __aexit__
         [m EXCEPT !.c.session = NoId, !.c.stack = NoId, !.c.connected = FALSE,
                   !.r.cs = NoId,
                   !.r.pc = AfterDisconnect(m.r.ctx)]

\* _reconnect(): disconnect, then connect
Reconnect(m) ==
    [m EXCEPT !.r.pc = "x_disconnect", !.r.ctx = "reconnect",
              !.r.nReconnects = m.r.nReconnects + 1]

\* a retry loop that makes its second attempt although the reconnect failed
ConnectReturnRetryAnyway(m) ==
    IF m.r.ctx \in {"startup", "connect"}
    THEN [m EXCEPT !.r.pc = IF m.r.ctx = "startup" THEN "serving"
                            ELSE IF m.r.pc = "x_conn_ret" THEN "x_ret" ELSE "x_raise"]
    ELSE [m EXCEPT !.r.pc = "x_attempt", !.r.attempt = IF m.r.ctx = "entry" THEN 0 ELSE 1]

\* where connect() returns to: the lifespan, call_tool's first lines, or
\* the retry loop after _reconnect
ConnectReturn(m) ==
    IF m.r.pc = "x_conn_ret"
    THEN CASE m.r.ctx = "startup" -> [m EXCEPT !.r.pc = "serving", !.r.ctx = ""]
           [] m.r.ctx = "connect" -> [m EXCEPT !.r.pc = "x_ret"]
           [] m.r.ctx = "entry" -> [m EXCEPT !.r.pc = "x_attempt", !.r.attempt = 0]
           [] OTHER -> [m EXCEPT !.r.pc = "x_attempt", !.r.attempt = 1]
    ELSE \* x_conn_raise
         CASE m.r.ctx = "startup" ->
                  [m EXCEPT !.r.pc = "serving", !.r.ctx = "", !.r.connFail = ""]
           [] m.r.ctx = "connect" -> [m EXCEPT !.r.pc = "x_raise"]
           [] m.r.ctx = "entry" -> [m EXCEPT !.r.pc = "x_node", !.r.result = "not_available"]
           [] OTHER -> [m EXCEPT !.r.pc = "x_node", !.r.result = "connection_lost"]

\* a call_tool that goes to the procedure call without looking at the client
CallToolHeadNoConnect(m) ==
    [m EXCEPT !.r.pc = "x_attempt", !.r.ctx = "entry", !.r.attempt = 0,
              !.r.nCalls = m.r.nCalls + 1]

\* call_tool(), first lines: connect first when the client is down
CallToolHead(m) ==
    IF ~m.c.connected \/ m.c.session = NoId
    THEN [m EXCEPT !.r.pc = "x_connect", !.r.ctx = "entry",
                   !.r.nCalls = m.r.nCalls + 1]
    ELSE [m EXCEPT !.r.pc = "x_attempt", !.r.ctx = "entry", !.r.attempt = 0,
                   !.r.nCalls = m.r.nCalls + 1]

\* one pass of `for attempt in range(2)`: the request goes out on the
\* session the client holds now (None raises at once)
StartAttempt(m) ==
    IF m.c.session = NoId
    THEN [m EXCEPT !.r.pc = "x_attempt_fail", !.r.nAttempts = m.r.nAttempts + 1,
                   !.r.fails = Append(@, "no_session")]
    ELSE [m EXCEPT !.r.pc = "call", !.r.onSess = m.c.session,
                   !.r.nAttempts = m.r.nAttempts + 1]

\* a retry loop that reconnects after the second failure as well
AttemptFailedRetryAgain(m) ==
    IF m.r.nAttempts < 3
    THEN [m EXCEPT !.r.pc = "x_reconnect", !.r.onSess = NoId]
    ELSE [m EXCEPT !.r.pc = "x_node", !.r.result = "call_failed", !.r.onSess = NoId]

\* a retry loop that returns a result without "error" after the second failure
AttemptFailedSwallow(m) ==
    IF m.r.attempt = 0
    THEN [m EXCEPT !.r.pc = "x_reconnect", !.r.onSess = NoId]
    ELSE [m EXCEPT !.r.pc = "x_node", !.r.result = "ok", !.r.onSess = NoId]

\* the except clause of the loop: reconnect after the first failure, give
\* up after the second
AttemptFailed(m) ==
    IF m.r.attempt = 0
    THEN [m EXCEPT !.r.pc = "x_reconnect", !.r.onSess = NoId]
    ELSE [m EXCEPT !.r.pc = "x_node", !.r.result = "call_failed", !.r.onSess = NoId]

\* a check that takes an application error for a result
HasErrorTransportOnly(result) == result \in {"not_available", "connection_lost", "call_failed"}

\* what call_tool returned carries an "error" key
HasError(result) == result \in {"not_available", "connection_lost", "call_failed", "app_error"}

\* a node that forgets the status on success
CreateMeetingResultNoStatus(m) ==
    IF HasError(m.r.result)
    THEN [m EXCEPT !.r.pc = "finish", !.r.status = "error", !.r.response = "failed",
                   !.r.ctx = "", !.r.attempt = 0, !.r.proc = NoId]
    ELSE [m EXCEPT !.r.pc = "finish", !.r.response = "created",
                   !.r.ctx = "", !.r.attempt = 0, !.r.proc = NoId]

\* a node that lets an error result out as an exception: the request ends
\* in `except Exception` of chat, with no reply
CreateMeetingResultRaises(m) ==
    IF HasError(m.r.result)
    THEN [m EXCEPT !.r.pc = "aborted", !.r.ctx = "", !.r.attempt = 0, !.r.proc = NoId]
    ELSE [m EXCEPT !.r.pc = "finish", !.r.status = "created", !.r.response = "created",
                   !.r.ctx = "", !.r.attempt = 0, !.r.proc = NoId]

\* create_meeting_node after call_tool returned: error or created
CreateMeetingResult(m) ==
    IF HasError(m.r.result)
    THEN [m EXCEPT !.r.pc = "finish", !.r.status = "error", !.r.response = "failed",
                   !.r.ctx = "", !.r.attempt = 0, !.r.proc = NoId]
    ELSE [m EXCEPT !.r.pc = "finish", !.r.status = "created", !.r.response = "created",
                   !.r.ctx = "", !.r.attempt = 0, !.r.proc = NoId]

\* call_tool returns to create_meeting_node, or to a caller that holds the
\* client itself
CallToolReturn(m) ==
    IF m.r.caller = "direct" THEN [m EXCEPT !.r.pc = "done"] ELSE CreateMeetingResult(m)

\* connect() or disconnect() returns to, or raises into, a caller that
\* holds the client itself
DirectReturn(m) ==
    [m EXCEPT !.r.pc = "done",
              !.r.result = IF m.r.pc = "x_ret" THEN "returned" ELSE "raised"]

\* list_tools() up to its await: `if self._session is None: return []`
ListToolsHead(m) ==
    IF m.c.session = NoId
    THEN [m EXCEPT !.r.pc = "done", !.r.result = "empty", !.r.fails = <<"no_session">>]
    ELSE [m EXCEPT !.r.pc = "l_list", !.r.onSess = m.c.session]

\* a list_tools() that lets the failure of the list call out
ListToolsResultRaises(m, ok) ==
    [m EXCEPT !.r.pc = "done", !.r.onSess = NoId,
              !.r.result = IF ok THEN "tools" ELSE "raised",
              !.r.fails = IF ok THEN <<>> ELSE <<"list">>]

\* list_tools() after its await: the tool names, or [] from the except clause
ListToolsResult(m, ok) ==
    [m EXCEPT !.r.pc = "done", !.r.onSess = NoId,
              !.r.result = IF ok THEN "tools" ELSE "empty",
              !.r.fails = IF ok THEN <<>> ELSE <<"list">>]

\* one statement of the coroutine
Sync(m, scriptOk) ==
    CASE m.r.pc \in {"x_connect", "x_script"} -> ConnectHead(m, scriptOk)
      [] m.r.pc \in {"x_except", "x_except2"} -> ConnectExcept(m)
      [] m.r.pc \in {"x_conn_ret", "x_conn_raise"} -> ConnectReturn(m)
      [] m.r.pc = "x_call_tool" -> CallToolHead(m)
      [] m.r.pc = "x_attempt" -> StartAttempt(m)
      [] m.r.pc = "x_attempt_fail" -> AttemptFailed(m)
      [] m.r.pc = "x_reconnect" -> Reconnect(m)
      [] m.r.pc \in {"x_disconnect", "x_disc_done"} -> Disconnect(m)
      [] m.r.pc = "x_node" -> CallToolReturn(m)
      [] m.r.pc \in {"x_ret", "x_raise"} -> DirectReturn(m)
      [] m.r.pc = "x_list_tools" -> ListToolsHead(m)

RECURSIVE Settle(_, _)
\* run the coroutine to its next await
Settle(m, scriptOk) ==
    IF m.r.pc \in TransientPcs THEN Settle(Sync(m, scriptOk), scriptOk) ELSE m

\* the coroutine p resumes at position pc of m and runs to the next await
Resume(p, m, scriptOk) ==
    LET n == Settle(m, scriptOk)
    IN /\ n.r.pc # "stuck"
       /\ UNCHANGED sessions
       /\ task' = [task EXCEPT ![p] = n.r]
       /\ client' = n.c
       /\ stackProcs' = n.sp
       /\ stackSess' = n.ss

\* a request on session q can complete: its process and session are still held
SessOpen(m, q) ==
    /\ q # NoId
    /\ \E s \in StackIds : q \in m.ss[s]
    /\ \E s \in StackIds : q \in m.sp[s]

\* ------------------------------------------------ connect(): the four awaits
\* await enter_async_context(stdio_client(...)): the provider is spawned and
\* its context pushed on the stack the call was made on
SpawnDone(p, ok) ==
    /\ task[p].pc = "c_spawn"
    /\ LET m == Machine(p)
           q == FreshProc(m)
       IN IF ok
          THEN /\ q # NoId
               /\ LET m1 == [m EXCEPT !.sp[m.r.cs] = @ \cup {q}, !.r.proc = q]
                  IN IF m1.c.stack = NoId
                     THEN Resume(p, [m1 EXCEPT !.r.pc = "x_except", !.r.connFail = "attr"], TRUE)
                     ELSE Resume(p, [m1 EXCEPT !.r.pc = "c_session", !.r.cs = m1.c.stack], TRUE)
          ELSE Resume(p, [m EXCEPT !.r.pc = "x_except", !.r.faulted = TRUE,
                                   !.r.connFail = "spawn"], TRUE)

\* await enter_async_context(ClientSession(read, write)); the result is
\* stored in _session and initialize() is sent on it
SessionDone(p, ok) ==
    /\ task[p].pc = "c_session"
    /\ LET m == Machine(p)
       IN IF ok
          THEN Resume(p, [m EXCEPT !.ss[m.r.cs] = @ \cup {m.r.proc},
                                   !.c.session = m.r.proc,
                                   !.r.onSess = m.r.proc,
                                   !.r.pc = "c_init"], TRUE)
          ELSE Resume(p, [m EXCEPT !.r.pc = "x_except", !.r.faulted = TRUE,
                                   !.r.connFail = "session"], TRUE)

\* await _session.initialize(); then list_tools() is sent on _session
InitDone(p, ok) ==
    /\ task[p].pc = "c_init"
    /\ LET m == Machine(p)
       IN /\ ok => SessOpen(m, m.r.onSess)
          /\ IF ok /\ m.c.session # NoId
             THEN Resume(p, [m EXCEPT !.r.pc = "c_list", !.r.onSess = m.c.session], TRUE)
             ELSE Resume(p, [m EXCEPT !.r.pc = "x_except", !.r.faulted = ~ok,
                                      !.r.connFail = IF ok THEN "attr" ELSE "init"], TRUE)

\* await _session.list_tools(); then _connected = True
ListDone(p, ok) ==
    /\ task[p].pc = "c_list"
    /\ LET m == Machine(p)
       IN /\ ok => SessOpen(m, m.r.onSess)
          /\ IF ok
             THEN Resume(p, [m EXCEPT !.c.connected = TRUE, !.r.pc = "x_conn_ret",
                                      !.r.cs = NoId, !.r.proc = NoId, !.r.onSess = NoId], TRUE)
             ELSE Resume(p, [m EXCEPT !.r.pc = "x_except", !.r.faulted = TRUE,
                                      !.r.connFail = "list"], TRUE)

\* await _session.list_tools() in list_tools()
ListToolsDone(p, ok) ==
    /\ task[p].pc = "l_list"
    /\ LET m == Machine(p)
       IN /\ ok => SessOpen(m, m.r.onSess)
          /\ Resume(p, ListToolsResult(m, ok), TRUE)

\* await _stack.__aexit__() in connect()'s except clause (its own failure
\* is swallowed)
CleanupDone(p) ==
    /\ task[p].pc = "c_cleanup"
    /\ LET m == Machine(p)
       IN Resume(p, [m EXCEPT !.sp = CloseStack(m.sp, m.r.cs),
                              !.ss = CloseStack(m.ss, m.r.cs),
                              !.r.pc = "x_except2"], TRUE)

\* await _stack.__aexit__() in disconnect(): the stack unwinds every
\* context it holds; when one of them fails (~ok) the exception is logged
\* and swallowed; a reconnect goes on into connect()
DisconnectDone(p, ok, scriptOk) ==
    /\ task[p].pc = "d_exit"
    /\ LET m == Machine(p)
       IN Resume(p, [m EXCEPT !.sp = CloseStack(m.sp, m.r.cs),
                              !.ss = CloseStack(m.ss, m.r.cs),
                              !.r.tearFail = ~ok,
                              !.r.pc = "x_disc_done"], scriptOk)

\* ------------------------------------------------------ call_tool: the await
CallOutcomes == {"ok", "app_error", "bad_json", "transport"}

\* the provider executes the create_meeting request in flight:
\* _calendar.create_event inserts the event into the calendar; the answer
\* is still on its way to the client
ProviderCreate(p) ==
    /\ task[p].pc = "call"
    /\ ~task[p].served
    /\ SessOpen(Machine(p), task[p].onSess)
    /\ task' = [task EXCEPT ![p].served = TRUE, ![p].created = @ + 1]
    /\ UNCHANGED <<sessions, client, stackProcs, stackSess>>

\* await _session.call_tool(...), then json.loads of the text: a result
\* object ("ok", or "app_error" with an error key) is returned; a payload
\* that is no JSON and a transport fault both raise inside the try block.
\* "ok" is the provider's answer after the insert; an error object and a
\* tool error that is no JSON come from a request that inserted nothing; a
\* transport fault can come before or after the insert
CallDone(p, outcome, scriptOk) ==
    /\ task[p].pc = "call"
    /\ outcome \in {"app_error", "bad_json"} => ~task[p].served
    /\ LET m == [Machine(p) EXCEPT
                    !.r.served = FALSE,
                    !.r.created = IF outcome = "ok" /\ ~task[p].served THEN @ + 1 ELSE @]
       IN /\ outcome # "transport" => SessOpen(m, m.r.onSess)
          /\ IF outcome \in {"ok", "app_error"}
             THEN Resume(p, [m EXCEPT !.r.pc = "x_node", !.r.result = outcome,
                                      !.r.onSess = NoId,
                                      !.r.faulted = @ \/ outcome = "app_error"], scriptOk)
             ELSE Resume(p, [m EXCEPT !.r.pc = "x_attempt_fail", !.r.faulted = TRUE,
                                      !.r.fails = Append(@, outcome)], scriptOk)

\* ----------------------------------------------------------------- lifespan
\* startup: connect, and serve whether or not it worked
Startup(scriptOk) ==
    /\ task[Main].pc = "boot"
    /\ Resume(Main, [Machine(Main) EXCEPT !.r.pc = "x_connect", !.r.ctx = "startup"], scriptOk)

Idle(p) == task[p].pc \in {"idle", "done", "aborted"}

\* shutdown, once no request is in progress: disconnect
Shutdown ==
    /\ task[Main].pc = "serving"
    /\ \A t \in AllTasks \ {Main} : Idle(t)
    /\ Resume(Main, [Machine(Main) EXCEPT !.r.pc = "x_disconnect", !.r.ctx = "shutdown"], TRUE)

\* --------------------------------------------- the client, called directly
\* The public methods of MCPCalendarClient, called one after the other by a
\* caller that holds the client itself.
DirectCall(p, pc, ctx, scriptOk) ==
    /\ Idle(p)
    /\ Resume(p, [Machine(p) EXCEPT
                     !.r = [NewTask EXCEPT !.pc = pc, !.ctx = ctx, !.caller = "direct",
                                           !.connSeen = client.connected]],
              scriptOk)

\* await client.connect()
DirectConnect(p, scriptOk) == DirectCall(p, "x_connect", "connect", scriptOk)

\* await client.disconnect()
DirectDisconnect(p) == DirectCall(p, "x_disconnect", "disconnect", TRUE)

\* await client.call_tool(name, args)
DirectCallTool(p, scriptOk) == DirectCall(p, "x_call_tool", "entry", scriptOk)

\* await client.list_tools()
DirectListTools(p) == DirectCall(p, "x_list_tools", "list_tools", TRUE)

\* ------------------------------------------------------------ message texts
\* A text is a sequence of characters.
Upper == <<"A", "B", "C", "D", "E", "F", "G", "H", "I", "J", "K", "L", "M",
           "N", "O", "P", "Q", "R", "S", "T", "U", "V", "W", "X", "Y", "Z">>
LowerOf == <<"a", "b", "c", "d", "e", "f", "g", "h", "i", "j", "k", "l", "m",
             "n", "o", "p", "q", "r", "s", "t", "u", "v", "w", "x", "y", "z">>
LowerChar(c) == IF \E i \in 1..Len(Upper) : Upper[i] = c
                THEN LowerOf[CHOOSE i \in 1..Len(Upper) : Upper[i] = c]
                ELSE c
\* str.lower()
Lower(s) == [i \in 1..Len(s) |-> LowerChar(s[i])]

RECURSIVE LStrip(_)
LStrip(s) == IF s # <<>> /\ Head(s) = " " THEN LStrip(Tail(s)) ELSE s
RECURSIVE RStrip(_)
RStrip(s) == IF s # <<>> /\ s[Len(s)] = " " THEN RStrip(SubSeq(s, 1, Len(s) - 1)) ELSE s
\* str.strip()
Strip(s) == RStrip(LStrip(s))

\* str.startswith
StartsWith(s, g) == Len(g) <= Len(s) /\ SubSeq(s, 1, Len(g)) = g

greetings ==
    << <<"h", "i">>, <<"h", "e", "l", "l", "o">>, <<"h", "e", "y">>,
       <<"h", "o", "l", "a">>, <<"n", "a", "m", "a", "s", "t", "e">>,
       <<"h", "i", "i">>, <<"h", "i", "i", "i">>, <<"y", "o">>, <<"s", "u", "p">> >>

\* a greeting test on the raw text: no strip, no lower, whole message only
IsGreetingExact(text) == \E i \in 1..Len(greetings) : text = greetings[i]

\* last_msg in greetings or any(last_msg.startswith(g) for g in greetings)
IsGreeting(text) ==
    LET last_msg == Lower(Strip(text))
    IN \E i \in 1..Len(greetings) : last_msg = greetings[i] \/ StartsWith(last_msg, greetings[i])

\* generate_response: the model's text, or its static sentence when the
\* text is empty, carries the "User sent" marker or is under 5 characters
LlmReplies == {"empty", "marker", "short", "text"}
generate_response(raw) == IF raw \in {"empty", "marker", "short"} THEN "static_hey" ELSE raw

\* the texts a user sends
Texts == { <<" ", "H", "e", "y">>, <<"y", "e", "s">> }

\* the results of parse_meeting_details handed to extract_details_node
T1500 == Str(<<"1", "5", ":", "0", "0">>)
T2330 == Str(<<"2", "3", ":", "3", "0">>)
T1700 == Str(<<"1", "7", ":", "0", "0">>)
CompleteInput ==
    [title |-> Str(<<"Review">>), date |-> Str(<<"2025-07-15">>), start_time |-> T1500,
     participants |-> List(<<"a@b.com", "c@d.com">>)]
ParsedInputs ==
    { EmptyDict,
      [title |-> None, date |-> Str(<<>>), participants |-> List(<<>>), end_time |-> None],
      [title |-> Str(<<"Project Sync">>)],
      [participants |-> List(<<"a@b.com">>), date |-> Str(<<"2025-07-15">>), start_time |-> T1500],
      [end_time |-> T1700, title |-> Str(<<"Standup">>)],
      CompleteInput }

\* the extraction results of the concurrent specification
ConcParsedInputs == { CompleteInput, EmptyDict }
LiveParsedInputs == ConcParsedInputs \cup { [title |-> Str(<<"Project Sync">>)] }
\* extraction results without an end_time, the last one a new start_time
RescheduleInputs ==
    ConcParsedInputs \cup { [start_time |-> T2330, description |-> Str(<<>>)] }
ConcTexts == { <<"y", "e", "s">> }
ConcIntents == {"new_request", "confirmation"}
ConcLlmReplies == {"text"}
ConcTeardowns == {TRUE}

\* ---------------------------------------------- the inputs of the slot logic
\* a key the dict does not carry
Absent == <<"absent", <<>>>>

\* the dict with the keys of r that are not Absent
Dict(r) == [k \in {f \in DOMAIN r : r[f] # Absent} |-> r[k]]

\* every time of day strftime("%H:%M") can print
ClockTimes == {Strftime(m) : m \in 0..(MinutesPerDay - 1)}

\* start_time values strptime accepts unpadded, and ones it rejects
OddTimes ==
    { Str(<<"9", ":", "5">>), Str(<<"2", "3", ":", "7">>), Str(<<"3", "p", "m">>),
      Str(<<"2", "4", ":", "0", "0">>), Str(<<"1", "5", ":", "6", "0">>) }

\* the slot sets a session can hold when a turn reaches extract_details_node
SlotSets ==
    { Dict(r) : r \in
        [title : {Absent, None, Str(<<>>), Str(<<" ">>), Str(<<"Review">>)},
         date : {Absent, Str(<<>>), Str(<<"2025-07-15">>)},
         start_time : {Absent, None, T1500, T2330, Str(<<"3", "p", "m">>)},
         end_time : {Absent, Str(<<>>), T1700},
         timezone : {Absent, Str(<<"UTC">>)},
         participants : {Absent, List(<<>>), List(<<"a@b.com">>)},
         description : {Absent, Str(<<"notes">>)}] }
    \cup
    { Dict(r) : r \in
        [start_time : ClockTimes \cup OddTimes,
         end_time : {Absent, None, T1700},
         timezone : {Str(<<"UTC">>)}] }

\* messages that reach general_response_node
GreetTexts ==
    { <<"h", "e", "y">>, <<" ", "H", "e", "y", " ">>, <<"H", "I">>, <<"h", "i", "i">>,
      <<"h", "i", "i", "i">>, <<"H", "e", "l", "l", "o", " ", "b", "o", "t">>,
      <<"h", "o", "l", "a", "!">>, <<"N", "a", "m", "a", "s", "t", "e">>, <<"Y", "o">>,
      <<"s", "u", "p", "?">>, <<"h", "i", "s", "t", "o", "r", "y">>,
      <<"y", "o", "u", "r", " ", "c", "a", "l", "l">>,
      <<"o", "h", " ", "h", "i">>, <<"y", "e", "s">>, <<"h">>, <<" ">>,
      <<"t", "h", "a", "n", "k", "s">>, <<"h", "e", "l", "p">> }

\* slot sets a session holds when a message is answered by general_response_node
GreetSlots ==
    { EmptyDict,
      [title |-> Str(<<"Review">>), timezone |-> DEFAULT_TIMEZONE],
      [title |-> Str(<<"Review">>), date |-> Str(<<"2025-07-15">>), start_time |-> T1500,
       end_time |-> Str(<<"1", "6", ":", "0", "0">>), timezone |-> DEFAULT_TIMEZONE,
       participants |-> List(<<"a@b.com">>)] }

\* where a turn stands after classify_input_node and the edge after it
NodeStarts ==
    { [pc |-> "extract_details", text |-> <<"y", "e", "s">>, intent |-> "new_request",
       status |-> "collecting", info |-> i] : i \in SlotSets }
    \cup
    { x \in [pc : {"general_response"}, text : GreetTexts,
             intent : {"general", "denial", "confirmation"},
             status : {"idle", "collecting", "confirming"}, info : GreetSlots] :
        /\ _route_after_classify(x.intent, x.status) = "general_response"
        /\ x.status = "idle" <=> x.info = EmptyDict }

\* the extraction results applied to them
SlotParsed ==
    ParsedInputs \cup
    { [start_time |-> T2330, description |-> Str(<<>>)],
      [start_time |-> Str(<<"3", "p", "m">>), timezone |-> Str(<<"UTC">>)],
      [title |-> Str(<<"Kickoff">>), date |-> None, start_time |-> Str(<<>>),
       end_time |-> None, timezone |-> Str(<<>>), participants |-> List(<<>>),
       description |-> None],
      [title |-> Str(<<>>), date |-> Str(<<>>), start_time |-> None, end_time |-> Str(<<>>),
       timezone |-> None, participants |-> None, description |-> Str(<<>>)] }

\* --------------------------------------------------- the chat endpoint, start
UserCount(msgs) == Cardinality({i \in 1..Len(msgs) : msgs[i][1] = "user"})

\* a lookup that hands out a new session every time
GetOrCreateAlwaysNew(sid) == NewSession

\* _get_or_create_session
_get_or_create_session(sid) == IF sid \in DOMAIN sessions THEN sessions[sid] ELSE NewSession

\* POST /api/chat up to `await _agent_graph.ainvoke`: the session is made on
\* first contact, the user message appended, the graph input read from it
ChatStart(t, sid, text, cap) ==
    /\ task[Main].pc = "serving"
    /\ Idle(t)
    /\ LET s == _get_or_create_session(sid)
       IN /\ UserCount(s.messages) < cap
          /\ sessions' = Put(sessions, sid, [s EXCEPT !.messages = Append(@, <<"user", text>>)])
          /\ task' = [task EXCEPT ![t] =
                        [NewTask EXCEPT !.pc = "classify_input", !.sid = sid, !.text = text,
                                        !.status = s.status, !.meeting_info = s.meeting_info,
                                        !.status0 = s.status, !.info0 = s.meeting_info]]
    /\ UNCHANGED <<client, stackProcs, stackSess>>

\* DELETE /api/session/{id}: `_sessions.pop(session_id, None)`; the
\* handler's record keeps whether there was a session to remove
DeleteSession(t, sid) ==
    /\ task[Main].pc = "serving"
    /\ Idle(t)
    /\ sessions' = [k \in (DOMAIN sessions) \ {sid} |-> sessions[k]]
    /\ task' = [task EXCEPT ![t] =
                  [NewTask EXCEPT !.sid = sid, !.response = "cleared",
                                  !.result = IF sid \in DOMAIN sessions
                                             THEN "removed" ELSE "unknown"]]
    /\ UNCHANGED <<client, stackProcs, stackSess>>

\* ------------------------------------------------------------ the graph nodes
Enter(r, node) == [r EXCEPT !.visited = Append(@, node)]

\* classify_input_node and the conditional edge after it; intent is what
\* classify_intent returned
ClassifyInput(t, intent) ==
    /\ task[t].pc = "classify_input"
    /\ task' = [task EXCEPT ![t] =
                  [Enter(@, "classify_input") EXCEPT
                      !.intent = intent,
                      !.pc = _route_after_classify(intent, task[t].status)]]
    /\ UNCHANGED <<sessions, client, stackProcs, stackSess>>

\* extract_details_node; parsed is what parse_meeting_details returned
ExtractDetails(t, parsed) ==
    /\ task[t].pc = "extract_details"
    /\ task' = [task EXCEPT ![t] =
                  [Enter(@, "extract_details") EXCEPT
                      !.meeting_info = ExtractInfo(task[t].meeting_info, parsed),
                      !.parsed = parsed,
                      !.status = "collecting",
                      !.pc = "check_completeness"]]
    /\ UNCHANGED <<sessions, client, stackProcs, stackSess>>

\* extract_details_node raises: parse_meeting_details reads llm_result.get
\* outside its try block, which fails when the model's JSON is not an
\* object, and strptime raises TypeError on a start_time that is not a
\* string.  ainvoke raises, chat answers with a server error: nothing is
\* written to the session, whose log keeps the user message
GraphFailed(t) ==
    /\ task[t].pc = "extract_details"
    /\ task' = [task EXCEPT ![t] = [Enter(@, "extract_details") EXCEPT !.pc = "aborted"]]
    /\ UNCHANGED <<sessions, client, stackProcs, stackSess>>

\* check_completeness_node and the conditional edge after it
CheckCompleteness(t) ==
    /\ task[t].pc = "check_completeness"
    /\ LET intent == IF _missing_fields(task[t].meeting_info) # <<>>
                     THEN "incomplete" ELSE "complete"
       IN task' = [task EXCEPT ![t] =
                     [Enter(@, "check_completeness") EXCEPT
                         !.intent = intent,
                         !.pc = _route_after_completeness(intent)]]
    /\ UNCHANGED <<sessions, client, stackProcs, stackSess>>

\* an ask_missing_node that moves on to the confirmation status
AskMissingConfirming(t) ==
    /\ task[t].pc = "ask_missing"
    /\ task' = [task EXCEPT ![t] =
                  [Enter(@, "ask_missing") EXCEPT
                      !.response = "ask", !.status = "confirming", !.pc = "finish"]]
    /\ UNCHANGED <<sessions, client, stackProcs, stackSess>>

\* ask_missing_node
AskMissing(t) ==
    /\ task[t].pc = "ask_missing"
    /\ task' = [task EXCEPT ![t] =
                  [Enter(@, "ask_missing") EXCEPT
                      !.response = "ask", !.status = "collecting", !.pc = "finish"]]
    /\ UNCHANGED <<sessions, client, stackProcs, stackSess>>

\* present_confirmation_node
PresentConfirmation(t) ==
    /\ task[t].pc = "present_confirmation"
    /\ task' = [task EXCEPT ![t] =
                  [Enter(@, "present_confirmation") EXCEPT
                      !.response = "confirm", !.status = "confirming", !.pc = "finish"]]
    /\ UNCHANGED <<sessions, client, stackProcs, stackSess>>

\* a cancellation that forgets to drop the slots
CancelledKeepSlots(r) ==
    [r EXCEPT !.response = "cancelled", !.status = "idle", !.pc = "finish"]

\* general_response_node on denial: the slots are dropped, the status idle
Cancelled(r) ==
    [r EXCEPT !.response = "cancelled", !.status = "idle",
              !.meeting_info = EmptyDict, !.pc = "finish"]

\* general_response_node: cancellation, the static greeting, or the
\* generated reply with its fallback
GeneralResponse(t, raw) ==
    /\ task[t].pc = "general_response"
    /\ LET r == Enter(task[t], "general_response")
           resp == generate_response(raw)
       IN task' = [task EXCEPT ![t] =
            IF r.intent = "denial"
            THEN Cancelled(r)
            ELSE IF IsGreeting(r.text)
            THEN [r EXCEPT !.response = "greeting", !.pc = "finish"]
            ELSE [r EXCEPT !.nRespond = @ + 1,
                           !.response = IF resp \in {"empty", "marker", "short"}
                                        THEN "static_help" ELSE resp,
                           !.pc = "finish"]]
    /\ UNCHANGED <<sessions, client, stackProcs, stackSess>>

\* `_mcp_client is None or not _mcp_client.is_connected` is false
ClientUsable(c) == c.connected

\* create_meeting_node up to the first await of call_tool: the
\* availability check, the arguments (info["date"], info["start_time"]
\* raise KeyError when missing), then call_tool
CreateMeeting(t, scriptOk) ==
    /\ task[t].pc = "create_meeting"
    /\ LET r == [Enter(task[t], "create_meeting") EXCEPT !.connSeen = client.connected]
       IN IF ~ClientUsable(client)
          THEN /\ task' = [task EXCEPT ![t] =
                             [r EXCEPT !.response = "unavailable", !.status = "error",
                                       !.pc = "finish"]]
               /\ UNCHANGED <<sessions, client, stackProcs, stackSess>>
          ELSE IF ~({"date", "start_time"} \subseteq DOMAIN r.meeting_info)
          THEN /\ task' = [task EXCEPT ![t] =
                             [r EXCEPT !.response = "fault", !.status = "error",
                                       !.pc = "finish"]]
               /\ UNCHANGED <<sessions, client, stackProcs, stackSess>>
          ELSE Resume(t, [Machine(t) EXCEPT !.r = [r EXCEPT !.pc = "x_call_tool"]], scriptOk)

\* ----------------------------------------------------- the chat endpoint, end
\* a reset that also fires on "error"
ShouldResetOnError(status) == status \in {"created", "error"}

\* a chat handler that never resets the session
ShouldResetNever(status) == FALSE

\* `if session["status"] in ("created",)`
ShouldReset(status) == status \in {"created"}

\* `info and any(info.get(k) for k in ("title", "date", "start_time"))`
HasDetails(info) ==
    /\ info # EmptyDict
    /\ \E k \in {"title", "date", "start_time"} : Truthy(Get(info, k))

\* MeetingDetailsOut(**{k: info.get(k) for k in model_fields}) validates:
\* timezone is a str and participants a list (None is not accepted for
\* either), the other fields are a str or None
OutValid(info) ==
    /\ Get(info, "timezone")[1] = "str"
    /\ Get(info, "participants")[1] = "list"
    /\ \A k \in {"title", "date", "start_time", "end_time", "description"} :
           Get(info, k)[1] \in {"none", "str"}

\* POST /api/chat after ainvoke returned: status and meeting_info are
\* written back, the reply appended, and a created session reset; then the
\* response is built, which fails when the details do not validate: the
\* request ends in a server error instead of the reply
ChatFinish(t) ==
    /\ task[t].pc = "finish"
    /\ LET r == task[t]
           s == _get_or_create_session(r.sid)
           s1 == [s EXCEPT !.status = r.status,
                           !.meeting_info = r.meeting_info,
                           !.messages = Append(@, <<"assistant", <<r.response>> >>)]
           s2 == IF ShouldReset(s1.status)
                 THEN [s1 EXCEPT !.meeting_info = EmptyDict, !.status = "idle"]
                 ELSE s1
           info == IF r.meeting_info # EmptyDict THEN r.meeting_info ELSE s2.meeting_info
       IN /\ sessions' = Put(sessions, r.sid, s2)
          /\ task' = [task EXCEPT ![t] =
                        [r EXCEPT !.pc = IF HasDetails(info) /\ ~OutValid(info)
                                         THEN "aborted" ELSE "done"]]
    /\ UNCHANGED <<client, stackProcs, stackSess>>

\* ------------------------------------------------------------- the properties
InSeq(x, sq) == \E i \in 1..Len(sq) : sq[i] = x
Ended(t) == task[t].pc = "done"
Persisted(t) == sessions[task[t].sid]
ConfirmedTurn(t) == task[t].status0 = "confirming" /\ task[t].intent = "confirmation"

\* C1: a call_tool invocation makes at most 2 procedure attempts and at most
\* 1 reconnect, whatever fails.
C1_RetryBound ==
    \A t \in AllTasks : task[t].nCalls <= 1 /\ task[t].nAttempts <= 2 /\ task[t].nReconnects <= 1

\* a call that failed, reconnected, and failed again has returned
C1_Witness ==
    \E t \in SeqTasks : /\ Ended(t)
                        /\ task[t].nAttempts = 2
                        /\ task[t].nReconnects = 1
                        /\ task[t].result = "call_failed"

\* C2: a turn that starts in status confirming and is classified as
\* confirmation goes from classify_input straight to create_meeting: it never
\* stands at, or has visited, extract_details or check_completeness (or any
\* other node), whatever the text.
C2_ConfirmGoesToCreate ==
    \A t \in AllTasks :
        ConfirmedTurn(t) =>
            /\ task[t].pc \notin {"extract_details", "check_completeness", "ask_missing",
                                  "present_confirmation", "general_response"}
            /\ ~InSeq("extract_details", task[t].visited)
            /\ ~InSeq("check_completeness", task[t].visited)
            /\ task[t].parsed = EmptyDict
            /\ task[t].pc \in {"finish", "done"} =>
                   task[t].visited = <<"classify_input", "create_meeting">>

\* a confirmed turn whose text is a greeting has ended after create_meeting
C2_Witness ==
    \E t \in SeqTasks : /\ Ended(t)
                        /\ ConfirmedTurn(t)
                        /\ IsGreeting(task[t].text)
                        /\ InSeq("create_meeting", task[t].visited)

\* C3: a turn classified as denial ends with the persisted slots empty and
\* the persisted status idle, without extraction and without a tool call.
C3_DenialResets ==
    \A t \in AllTasks :
        (Ended(t) /\ task[t].intent = "denial") =>
            /\ Persisted(t).meeting_info = EmptyDict
            /\ Persisted(t).status = "idle"
            /\ ~InSeq("extract_details", task[t].visited)
            /\ ~InSeq("create_meeting", task[t].visited)
            /\ task[t].nCalls = 0

\* a denial in status error with slots held has ended
C3_Witness ==
    \E t \in SeqTasks : /\ Ended(t)
                        /\ task[t].intent = "denial"
                        /\ task[t].status0 = "error"
                        /\ task[t].info0 # EmptyDict

\* C4: right after extract_details, every field that was non-empty before
\* is still non-empty: it keeps its value when the extraction has None, "",
\* [] or nothing for it, and takes the extracted value otherwise.
C4_MergeNeverErases ==
    \A t \in AllTasks :
        task[t].pc = "check_completeness" =>
            \A i \in 1..Len(Fields) :
                LET f == Fields[i]
                    old == Get(task[t].info0, f)
                    new == Get(task[t].meeting_info, f)
                    ex == Get(task[t].parsed, f)
                IN ~IsEmptyVal(old) =>
                      /\ f \in DOMAIN task[t].meeting_info
                      /\ ~IsEmptyVal(new)
                      /\ new = IF IsEmptyVal(ex) THEN old ELSE ex

\* an extraction with a None title met a stored title, and one with a new
\* title replaced a stored one
C4_Witness ==
    \E t \in SeqTasks :
        /\ task[t].pc = "check_completeness"
        /\ ~IsEmptyVal(Get(task[t].info0, "title"))
        /\ "title" \in DOMAIN task[t].parsed
        /\ task[t].parsed["title"] = None

\* C5: when the tool invocation of a turn fails, the turn ends in status
\* error and the persisted slots are the slots the turn started with.
ToolFailed(t) ==
    /\ InSeq("create_meeting", task[t].visited)
    /\ \/ ~task[t].connSeen
       \/ HasError(task[t].result)

C6_SuccessResets ==
    \A t \in AllTasks :
        (Ended(t) /\ task[t].result = "ok") =>
            /\ task[t].status = "created"
            /\ Persisted(t).meeting_info = EmptyDict
            /\ Persisted(t).status = "idle"

\* a successful creation has ended
C6_Witness ==
    \E t \in SeqTasks : /\ Ended(t)
                        /\ task[t].result = "ok"
                        /\ task[t].info0 # EmptyDict
                        /\ task[t].nAttempts = 1

\* C7: at most one provider process is alive (spawned and not torn down) at
\* any time, under every interleaving of concurrent call_tool invocations.
AliveProcs == UNION {stackProcs[s] : s \in StackIds}
C7_SingleProvider == Cardinality(AliveProcs) <= 1

\* C8: two turns of one session never interleave: no request of a session is
\* between its read and its write while another request of it is.
C8_NoInterleave ==
    \A t1, t2 \in ConcTasks :
        (t1 # t2 /\ ~Idle(t1) /\ ~Idle(t2)) => task[t1].sid # task[t2].sid

\* C9: a confirmed turn that finds the client disconnected, with nothing
\* failing during the turn, still calls the tool and creates the meeting.
C9_SelfHeals ==
    \A t \in AllTasks :
        (Ended(t) /\ ConfirmedTurn(t) /\ ~task[t].connSeen /\ ~task[t].faulted) =>
            /\ task[t].nCalls = 1
            /\ task[t].status = "created"

\* C10: when the first procedure attempt fails only in decoding its payload,
\* call_tool makes no reconnect and no second attempt.
C10_NoRetryOnDecode ==
    \A t \in AllTasks :
        (task[t].fails # <<>> /\ task[t].fails[1] = "bad_json") =>
            /\ task[t].nReconnects = 0
            /\ task[t].nAttempts = 1

Returned(t) == task[t].pc \in {"finish", "done"}

\* C11 as stated: whenever a procedure call returns an object with an error
\* key, the call_tool invocation has made exactly 1 attempt and 0 reconnects.
C11_ExactlyOneAttempt ==
    \A t \in AllTasks :
        task[t].result = "app_error" => task[t].nAttempts = 1 /\ task[t].nReconnects = 0

\* C11, amended: an object with an error key ends the call_tool invocation
\* at the attempt that returned it (attempt 1 with no reconnect, or attempt 2
\* after the one reconnect that follows a failed attempt 1); the client is
\* connected when it returns and the turn ends in status error.
C11_AppErrorNotRetried ==
    \A t \in AllTasks :
        (Returned(t) /\ task[t].result = "app_error") =>
            /\ Len(task[t].fails) <= 1
            /\ task[t].nAttempts = Len(task[t].fails) + 1
            /\ task[t].nReconnects = Len(task[t].fails)
            /\ task[t].status = "error"
            /\ task[t].pc = "finish" => client.connected /\ client.session # NoId
            /\ Ended(t) => Persisted(t).status = "error"

\* the first attempt returned an object with an error key and the turn ended
C11_Witness ==
    \E t \in SeqTasks : /\ Ended(t)
                        /\ task[t].result = "app_error"
                        /\ task[t].fails = <<>>
                        /\ task[t].nAttempts = 1
                        /\ task[t].nReconnects = 0

\* C12: when the first attempt of a call_tool invocation fails and the
\* connect of the reconnect fails, the invocation returns the "connection
\* lost" error after that one attempt and leaves the client disconnected.
C12_ReconnectFailureEndsCall ==
    \A t \in AllTasks :
        (Returned(t) /\ task[t].fails # <<>> /\ task[t].nReconnects = 1
                     /\ task[t].connFail # "") =>
            /\ task[t].nAttempts = 1
            /\ Len(task[t].fails) = 1
            /\ task[t].result = "connection_lost"
            /\ HasError(task[t].result)
            /\ task[t].pc = "finish" => client = NewClient

\* a transport fault, then a reconnect whose handshake failed
C12_Witness ==
    \E t \in SeqTasks : /\ task[t].pc = "finish"
                        /\ task[t].fails = <<"transport">>
                        /\ task[t].connFail = "init"
                        /\ task[t].result = "connection_lost"

\* C13: when the first attempt fails with a transport fault, the reconnect
\* succeeds and the second attempt fails too, the invocation has made 2
\* attempts and 1 reconnect, has returned an error, and goes no further.
C13_SecondFailureIsFinal ==
    \A t \in AllTasks :
        (Len(task[t].fails) >= 2 /\ task[t].fails[1] = "transport") =>
            /\ Returned(t)
            /\ Len(task[t].fails) = 2
            /\ task[t].connFail = ""
            /\ task[t].nAttempts = 2
            /\ task[t].nReconnects = 1
            /\ HasError(task[t].result)

\* two transport faults around a successful reconnect
C13_Witness ==
    \E t \in SeqTasks : /\ Ended(t)
                        /\ task[t].fails = <<"transport", "transport">>
                        /\ task[t].connFail = ""
                        /\ task[t].status = "error"

ConnectAwaits == {"c_spawn", "c_session", "c_init", "c_list", "c_cleanup"}

\* C14: a call_tool invocation on a client that is not connected connects
\* before its first procedure attempt (no attempt is counted while that
\* connect runs, none is made without a session); when that connect fails
\* the invocation returns the "not available" error, having made no
\* attempt, and raises nothing.
C14_ConnectsBeforeCalling ==
    \A t \in AllTasks :
        (task[t].nCalls = 1 /\ ~task[t].connSeen) =>
            /\ (task[t].ctx = "entry" /\ task[t].pc \in ConnectAwaits) => task[t].nAttempts = 0
            /\ task[t].fails # <<>> => task[t].fails[1] # "no_session"
            /\ (task[t].pc = "call" /\ task[t].nReconnects = 0) =>
                   client.connected /\ client.session # NoId
            /\ (task[t].ctx = "entry" /\ task[t].connFail # "" /\ Returned(t)) =>
                   /\ task[t].result = "not_available"
                   /\ HasError(task[t].result)
                   /\ task[t].nAttempts = 0
                   /\ task[t].nReconnects = 0
                   /\ client = NewClient

\* call_tool on a disconnected client whose connect failed at the spawn
C14_Witness ==
    \E t \in SeqTasks : /\ Ended(t)
                        /\ task[t].nCalls = 1
                        /\ ~task[t].connSeen
                        /\ task[t].connFail = "spawn"
                        /\ task[t].result = "not_available"
                        /\ task[t].nAttempts = 0

HeldSessions == UNION {stackSess[s] : s \in StackIds}

\* C15: once a connect() that failed (at the script check, the spawn, the
\* session, initialize or list_tools) has left its except clause, the client
\* is disconnected with no session and no stack, no process and no session
\* is held by any stack, and the caller got the failure: raised to a direct
\* caller, an error result from call_tool.  While the cleanup is awaited the
\* flag is already down.
C15_FailedConnectCleansUp ==
    \A t \in AllTasks :
        /\ (task[t].connFail # "" /\ task[t].pc = "c_cleanup") => ~client.connected
        /\ (task[t].connFail # "" /\ task[t].pc \notin ConnectAwaits) =>
              /\ client = NewClient
              /\ AliveProcs = {}
              /\ HeldSessions = {}
              /\ task[t].ctx = "connect" => task[t].pc = "done" /\ task[t].result = "raised"
              /\ task[t].ctx = "entry" => task[t].result = "not_available"
              /\ task[t].ctx = "reconnect" => task[t].result = "connection_lost"
        /\ task[t].result = "raised" => task[t].connFail # ""

\* connect() failed at its last step, list_tools, with the process spawned
\* and the session open, and has raised
C15_Witness ==
    \E t \in SeqTasks : /\ Ended(t)
                        /\ task[t].ctx = "connect"
                        /\ task[t].connFail = "list"
                        /\ task[t].result = "raised"
                        /\ client = NewClient
                        /\ AliveProcs = {}

\* C16: connect() on a connected client returns at once: the client's
\* fields and every stack stay as they are, no process is spawned, nothing
\* is awaited and nothing is raised.
C16_ConnectIdempotent ==
    [][\A p \in SeqTasks, ok \in BOOLEAN :
          (client.connected /\ DirectConnect(p, ok)) =>
              /\ client' = client
              /\ stackProcs' = stackProcs
              /\ stackSess' = stackSess
              /\ task'[p].pc = "done"
              /\ task'[p].result = "returned"
              /\ task'[p].proc = NoId
              /\ task'[p].connFail = ""]_vars

\* connect() was called on a connected client and has returned
C16_Witness ==
    \E t \in SeqTasks : /\ Ended(t)
                        /\ task[t].ctx = "connect"
                        /\ task[t].connSeen
                        /\ task[t].result = "returned"
                        /\ client.connected
                        /\ AliveProcs # {}

\* C17: disconnect() never raises: it is either awaiting the teardown or
\* has returned; when it has returned the client is disconnected with no
\* session and no stack and no process or session is held, whether or not
\* the teardown failed; on a disconnected client it returns at once and
\* changes nothing.
C17_DisconnectNeverRaises ==
    /\ [](\A t \in AllTasks :
            task[t].ctx = "disconnect" =>
                /\ task[t].pc \in {"d_exit", "done"}
                /\ task[t].result # "raised"
                /\ task[t].pc = "done" =>
                       /\ task[t].result = "returned"
                       /\ client = NewClient
                       /\ AliveProcs = {}
                       /\ HeldSessions = {})
    /\ [][\A p \in SeqTasks :
            (client = NewClient /\ DirectDisconnect(p)) =>
                /\ client' = client
                /\ stackProcs' = stackProcs
                /\ stackSess' = stackSess
                /\ task'[p].pc = "done"
                /\ task'[p].result = "returned"]_vars

\* disconnect() on a connected client whose teardown failed has returned
C17_Witness ==
    \E t \in SeqTasks : /\ Ended(t)
                        /\ task[t].ctx = "disconnect"
                        /\ task[t].connSeen
                        /\ task[t].tearFail
                        /\ task[t].result = "returned"
                        /\ client = NewClient

TurnOver(t) == task[t].pc \in {"finish", "done", "aborted"}
LastMessage(t) == Persisted(t).messages[Len(Persisted(t).messages)]

\* C18: in every turn classify_intent is called exactly once (by the first
\* node), parse_meeting_details and generate_response at most once each,
\* call_tool at most once, and no node is entered twice.
C18_OneCallEach ==
    \A t \in AllTasks :
        LET v == task[t].visited
        IN /\ \A i, j \in 1..Len(v) : i < j => v[i] # v[j]
           /\ task[t].nRespond <= 1
           /\ task[t].nRespond = 1 => InSeq("general_response", v)
           /\ task[t].nCalls <= 1
           /\ task[t].nCalls = 1 => InSeq("create_meeting", v)
           /\ v # <<>> => v[1] = "classify_input"
           /\ TurnOver(t) => v # <<>>

\* a turn through the longest path of the graph, started in status error,
\* has ended
C18_Witness ==
    \E t \in SeqTasks :
        /\ Ended(t)
        /\ task[t].status0 = "error"
        /\ task[t].visited = <<"classify_input", "extract_details", "check_completeness",
                               "present_confirmation">>

\* C19: a turn whose tool invocation failed (client not connected, connect
\* failure inside call_tool, failure of both attempts, an error object, or an
\* exception in the node) is never aborted: it has a non-empty reply and
\* status error, and at its end the session holds that status and the reply
\* as the assistant message after the user's.
ToolFault(t) ==
    /\ InSeq("create_meeting", task[t].visited)
    /\ task[t].pc \notin {"create_meeting", "call"} \cup ConnectAwaits \cup {"d_exit"}
    /\ \/ ~task[t].connSeen
       \/ HasError(task[t].result)
       \/ task[t].response = "fault"

C19_FailureStillReplies ==
    \A t \in AllTasks :
        ToolFault(t) =>
            /\ task[t].pc \in {"finish", "done"}
            /\ task[t].response \in {"unavailable", "failed", "fault"}
            /\ task[t].status = "error"
            /\ Ended(t) =>
                  /\ Persisted(t).status = "error"
                  /\ Len(Persisted(t).messages) >= 2
                  /\ LastMessage(t) = <<"assistant", <<task[t].response>> >>
                  /\ Persisted(t).messages[Len(Persisted(t).messages) - 1]
                        = <<"user", task[t].text>>

\* a turn whose reconnect failed has ended with its reply in the log
C19_Witness ==
    \E t \in SeqTasks :
        /\ Ended(t)
        /\ task[t].result = "connection_lost"
        /\ LastMessage(t) = <<"assistant", <<"failed">> >>
        /\ Persisted(t).status = "error"

\* C20: the edge after classification is a function of intent and status
\* with three targets: new_request and modification go to extract_details
\* at every status, confirmation in status confirming to create_meeting,
\* everything else to general_response.  A turn classified as general, or
\* as confirmation outside status confirming, visits classify_input and
\* general_response only: nothing is extracted, no tool is called, and
\* status and slots end as they started.
QuietTurn(t) ==
    /\ TurnOver(t)
    /\ \/ task[t].intent = "general"
       \/ task[t].intent = "confirmation" /\ task[t].status0 # "confirming"

RoutingRule ==
    \A intent \in Intents \cup {""}, status \in Statuses :
        _route_after_classify(intent, status) =
            IF intent \in {"new_request", "modification"} THEN "extract_details"
            ELSE IF intent = "confirmation" /\ status = "confirming" THEN "create_meeting"
            ELSE "general_response"

C20_RoutingTotal ==
    /\ RoutingRule
    /\ \A t \in AllTasks :
          /\ (Len(task[t].visited) = 1 /\ task[t].intent \in {"new_request", "modification"})
                => task[t].pc = "extract_details"
          /\ QuietTurn(t) =>
                /\ task[t].visited = <<"classify_input", "general_response">>
                /\ task[t].parsed = EmptyDict
                /\ task[t].nCalls = 0
                /\ task[t].status = task[t].status0
                /\ task[t].meeting_info = task[t].info0
                /\ task[t].pc # "finish" =>
                      /\ Persisted(t).status = task[t].status0
                      /\ Persisted(t).meeting_info = task[t].info0

\* a confirmation in status collecting, slots in hand, has ended
C20_Witness ==
    \E t \in SeqTasks :
        /\ Ended(t)
        /\ task[t].intent = "confirmation"
        /\ task[t].status0 = "collecting"
        /\ task[t].info0 # EmptyDict
        /\ Persisted(t).meeting_info = task[t].info0

\* position of a field in the order title, date, start_time, participants
Rank(f) == CHOOSE i \in 1..4 : <<"title", "date", "start_time", "participants">>[i] = f

\* the field is absent, null, the empty string or the empty list
Unset(info, f) ==
    \/ f \notin DOMAIN info
    \/ info[f] = <<"none", <<>>>>
    \/ info[f] = <<"str", <<>>>>
    \/ info[f] = <<"list", <<>>>>

\* the node after the completeness check has been chosen
Checked(t) ==
    /\ task[t].visited # <<>>
    /\ task[t].visited[Len(task[t].visited)] = "check_completeness"

\* C21: for every slot set the completeness check returns exactly the fields
\* among title, date, start_time, participants that are absent, null, "" or
\* [], in that order; end_time, timezone and description are never returned;
\* and the derived intent is "complete" exactly when nothing is returned.
C21_MissingExact ==
    \A t \in SeqTasks :
        LET m == _missing_fields(task[t].meeting_info)
        IN /\ \A i \in 1..Len(m) : m[i] \in {"title", "date", "start_time", "participants"}
           /\ \A f \in {"title", "date", "start_time", "participants"} :
                  InSeq(f, m) <=> Unset(task[t].meeting_info, f)
           /\ \A i, j \in 1..Len(m) : i < j => Rank(m[i]) < Rank(m[j])
           /\ Checked(t) =>
                  /\ task[t].intent \in {"complete", "incomplete"}
                  /\ task[t].intent = "complete" <=> m = <<>>
                  /\ task[t].pc = IF m = <<>> THEN "present_confirmation" ELSE "ask_missing"

\* check_completeness_node has run on a slot set that lacks date and participants, has a
\* blank title, and has no end_time, timezone or description either
C21_Witness ==
    \E t \in SeqTasks :
        /\ Checked(t)
        /\ task[t].intent = "incomplete"
        /\ _missing_fields(task[t].meeting_info) = <<"date", "participants">>
        /\ Get(task[t].meeting_info, "title") = Str(<<" ">>)
        /\ Get(task[t].meeting_info, "description") = None

\* extract_details_node has run in the turn
Extracted(t) == InSeq("extract_details", task[t].visited)

\* every field of the extraction result is empty
AllEmptyResult(parsed) == \A k \in DOMAIN parsed : Unset(parsed, k)

\* title is the only non-empty field of the extraction result
TitleOnlyResult(parsed) ==
    /\ ~Unset(parsed, "title")
    /\ \A k \in (DOMAIN parsed) \ {"title"} : Unset(parsed, k)

\* the two slot sets agree on field k: same presence, same value
SameField(a, b, k) == (k \in DOMAIN a <=> k \in DOMAIN b) /\ Get(a, k) = Get(b, k)

FieldSet == {Fields[i] : i \in 1..Len(Fields)}

\* C22 as stated: Extract with an all-empty extraction result leaves the slot
\* set unchanged, and with a title-only result changes only title.
C22_ExtractChangesOnlyTitle ==
    \A t \in SeqTasks :
        Extracted(t) =>
            /\ AllEmptyResult(task[t].parsed) => task[t].meeting_info = task[t].info0
            /\ TitleOnlyResult(task[t].parsed) =>
                  \A k \in FieldSet \ {"title"} :
                      SameField(task[t].meeting_info, task[t].info0, k)

\* the end_time Extract derives for a slot set, Absent when it derives none
DerivedEnd(info) ==
    IF Truthy(Get(info, "start_time")) /\ ~Truthy(Get(info, "end_time"))
       /\ Strptime(Get(info, "start_time")) >= 0
    THEN Strftime((Strptime(Get(info, "start_time")) + 60) % 1440)
    ELSE Absent

\* C22 (amended): Extract with an all-empty or a title-only extraction result
\* changes no field other than title (title-only result: set to the
\* extracted title), timezone (set to the default when it was absent or
\* empty) and end_time (set to start_time plus one hour when start_time is
\* a valid time and end_time was absent or empty); a slot set that already
\* has a timezone and an end_time changes in nothing but the title.
C22_ExtractChangesTitleAndDefaults ==
    \A t \in SeqTasks :
        LET old == task[t].info0
            new == task[t].meeting_info
            p == task[t].parsed
        IN (Extracted(t) /\ (AllEmptyResult(p) \/ TitleOnlyResult(p))) =>
            /\ DOMAIN new \subseteq (DOMAIN old) \cup {"title", "timezone", "end_time"}
            /\ \A k \in FieldSet \ {"title", "timezone", "end_time"} : SameField(new, old, k)
            /\ IF TitleOnlyResult(p) THEN "title" \in DOMAIN new /\ new["title"] = p["title"]
                                     ELSE SameField(new, old, "title")
            /\ IF Truthy(Get(old, "timezone")) THEN SameField(new, old, "timezone")
                                               ELSE Get(new, "timezone") = DEFAULT_TIMEZONE
            /\ IF DerivedEnd(old) = Absent THEN SameField(new, old, "end_time")
                                           ELSE Get(new, "end_time") = DerivedEnd(old)

\* a title-only extraction met a slot set with start_time 15:00 and neither
\* timezone nor end_time: the title, the default timezone and 16:00 went in,
\* the date stayed
C22_Witness ==
    \E t \in SeqTasks :
        /\ Extracted(t)
        /\ TitleOnlyResult(task[t].parsed)
        /\ Get(task[t].info0, "title") = Str(<<"Review">>)
        /\ {"timezone", "end_time"} \cap DOMAIN task[t].info0 = {}
        /\ Get(task[t].meeting_info, "title") = Str(<<"Kickoff">>)
        /\ Get(task[t].meeting_info, "timezone") = DEFAULT_TIMEZONE
        /\ Get(task[t].meeting_info, "end_time") = Str(<<"1", "6", ":", "0", "0">>)
        /\ Get(task[t].meeting_info, "date") = Str(<<"2025-07-15">>)

\* after the merge of the turn end_time is absent, None or ""
MergedEndUnset(t) ==
    /\ Unset(task[t].parsed, "end_time")
    /\ Unset(task[t].info0, "end_time")

\* a bare HH:MM string: two digits, a colon, two digits
IsHHMM(v) ==
    /\ v[1] = "str"
    /\ Len(v[2]) = 5
    /\ v[2][3] = ":"
    /\ \A i \in {1, 2, 4, 5} : IsDigit(v[2][i])

\* C23: when after the merge start_time is a valid HH:MM value and end_time
\* is absent, Extract sets end_time to start_time plus 60 minutes modulo 24
\* hours as a bare HH:MM time of day: 23:30 gives 00:30, and every
\* start_time from 23:00 to 23:59 wraps to 00:00 .. 00:59.
C23_EndTimeWraps ==
    \A t \in SeqTasks :
        LET start == Get(task[t].meeting_info, "start_time")
            end == Get(task[t].meeting_info, "end_time")
        IN (Extracted(t) /\ MergedEndUnset(t) /\ Strptime(start) >= 0) =>
            /\ IsHHMM(end)
            /\ Strptime(end) = (Strptime(start) + 60) % 1440
            /\ start = Str(<<"2", "3", ":", "3", "0">>) =>
                   end = Str(<<"0", "0", ":", "3", "0">>)
            /\ Strptime(start) \in (23 * 60)..(23 * 60 + 59) =>
                   /\ Strptime(end) = Strptime(start) - 23 * 60
                   /\ SubSeq(end[2], 1, 3) = <<"0", "0", ":">>
                   /\ SubSeq(end[2], 4, 5) = SubSeq(start[2], Len(start[2]) - 1, Len(start[2]))
                         \/ Len(start[2]) < 5

\* Extract met start_time 23:59 with no end_time and wrote 00:59
C23_Witness ==
    \E t \in SeqTasks :
        /\ Extracted(t)
        /\ MergedEndUnset(t)
        /\ Get(task[t].meeting_info, "start_time") = Str(<<"2", "3", ":", "5", "9">>)
        /\ Get(task[t].meeting_info, "end_time") = Str(<<"0", "0", ":", "5", "9">>)

\* C24: the end-time derivation never overwrites an explicit end_time: when
\* the extraction of this turn carries a non-empty end_time, or it carries
\* none and the slot set held one from an earlier turn, end_time after
\* Extract is that value, whatever start_time is.
C24_ExplicitEndTimeKept ==
    \A t \in SeqTasks :
        Extracted(t) =>
            /\ ~Unset(task[t].parsed, "end_time") =>
                   Get(task[t].meeting_info, "end_time") = task[t].parsed["end_time"]
            /\ (Unset(task[t].parsed, "end_time") /\ ~Unset(task[t].info0, "end_time")) =>
                   Get(task[t].meeting_info, "end_time") = task[t].info0["end_time"]

\* the slot set held end_time 17:00, the extraction brought start_time 23:30
\* and no end_time: 17:00 stayed
C24_Witness ==
    \E t \in SeqTasks :
        /\ Extracted(t)
        /\ Get(task[t].info0, "end_time") = T1700
        /\ Get(task[t].parsed, "start_time") = T2330
        /\ Unset(task[t].parsed, "end_time")
        /\ Get(task[t].meeting_info, "start_time") = T2330
        /\ Get(task[t].meeting_info, "end_time") = T1700

\* the slot sets of the scenario: after turn 1 and after turn 2
ScenarioSlots1 ==
    [participants |-> List(<<"a@b.com">>), date |-> Str(<<"2025-07-15">>),
     start_time |-> Str(<<"1", "5", ":", "0", "0">>),
     end_time |-> Str(<<"1", "6", ":", "0", "0">>), timezone |-> DEFAULT_TIMEZONE]
ScenarioSlots2 ==
    [k \in (DOMAIN ScenarioSlots1) \cup {"title"} |->
        IF k = "title" THEN Str(<<"Project Sync">>) ELSE ScenarioSlots1[k]]

\* turn 1 of a fresh session, its extraction giving participants, date and
\* start_time 15:00
ScenarioTurn1(t) ==
    /\ Len(Persisted(t).messages) = 2
    /\ task[t].status0 = "idle" /\ task[t].info0 = EmptyDict
    /\ Extracted(t)
    /\ task[t].parsed = [participants |-> List(<<"a@b.com">>), date |-> Str(<<"2025-07-15">>),
                         start_time |-> Str(<<"1", "5", ":", "0", "0">>)]

\* turn 2, its extraction giving the title
ScenarioTurn2(t) ==
    /\ Len(Persisted(t).messages) = 4
    /\ task[t].status0 = "collecting" /\ task[t].info0 = ScenarioSlots1
    /\ Extracted(t)
    /\ task[t].parsed = [title |-> Str(<<"Project Sync">>)]

\* turn 3, a confirmation
ScenarioTurn3(t) ==
    /\ Len(Persisted(t).messages) = 6
    /\ task[t].status0 = "confirming" /\ task[t].info0 = ScenarioSlots2
    /\ task[t].intent = "confirmation"

\* C25: from a fresh session, turn 1 (extraction: participants, date,
\* start_time 15:00) ends with status collecting and end_time 16:00; turn 2
\* (extraction: the title) completes the slot set and ends with status
\* confirming; turn 3 (a confirmation) calls the tool, and when the call
\* succeeds the session is left with status idle and an empty slot set.
C25_Scenario ==
    \A t \in SeqTasks :
        Ended(t) =>
            /\ ScenarioTurn1(t) =>
                   /\ Persisted(t).status = "collecting"
                   /\ Persisted(t).meeting_info = ScenarioSlots1
            /\ ScenarioTurn2(t) =>
                   /\ Persisted(t).status = "confirming"
                   /\ Persisted(t).meeting_info = ScenarioSlots2
                   /\ _missing_fields(Persisted(t).meeting_info) = <<>>
            /\ ScenarioTurn3(t) =>
                   /\ task[t].nCalls = 1
                   /\ task[t].nAttempts >= 1
                   /\ task[t].result = "ok" =>
                          /\ Persisted(t).status = "idle"
                          /\ Persisted(t).meeting_info = EmptyDict

\* the messages of GreetTexts that, trimmed and lower-cased, equal or start
\* with hi, hello, hey, hola, namaste, hii, hiii, yo or sup
GreetingMessages ==
    { <<"h", "e", "y">>, <<" ", "H", "e", "y", " ">>, <<"H", "I">>, <<"h", "i", "i">>,
      <<"h", "i", "i", "i">>, <<"H", "e", "l", "l", "o", " ", "b", "o", "t">>,
      <<"h", "o", "l", "a", "!">>, <<"N", "a", "m", "a", "s", "t", "e">>, <<"Y", "o">>,
      <<"s", "u", "p", "?">>, <<"h", "i", "s", "t", "o", "r", "y">>,
      <<"y", "o", "u", "r", " ", "c", "a", "l", "l">> }

\* general_response_node has answered a message that was not a denial
GeneralTurn(t) ==
    /\ task[t].visited # <<>>
    /\ task[t].visited[Len(task[t].visited)] = "general_response"
    /\ task[t].intent # "denial"

\* C26: in a turn routed to general_response_node with an intent other than
\* denial, when the trimmed, lower-cased message equals or starts with one
\* of the nine greetings, the reply is the static greeting, generate_response
\* is not called, and status and slot set are unchanged, in the turn and in
\* the session after it.
C26_GreetingShortCircuit ==
    \A t \in SeqTasks :
        (GeneralTurn(t) /\ task[t].text \in GreetingMessages) =>
            /\ task[t].response = "greeting"
            /\ task[t].nRespond = 0
            /\ task[t].status = task[t].status0
            /\ task[t].meeting_info = task[t].info0
            /\ task[t].pc # "finish" =>
                   /\ Persisted(t).status = task[t].status0
                   /\ Persisted(t).meeting_info = task[t].info0
                   /\ LastMessage(t) = <<"assistant", <<"greeting">> >>

\* " Hey " came in status collecting, classified as a confirmation, and the
\* turn ended with the greeting
C26_Witness ==
    \E t \in SeqTasks :
        /\ Ended(t)
        /\ GeneralTurn(t)
        /\ task[t].text = <<" ", "H", "e", "y", " ">>
        /\ task[t].intent = "confirmation"
        /\ task[t].status0 = "collecting"
        /\ task[t].info0 # EmptyDict
        /\ LastMessage(t) = <<"assistant", <<"greeting">> >>
        /\ task[t].nRespond = 0

\* C27: a session is created by the first message for an unseen id, with
\* an empty log (to which that message is appended), an empty slot set and
\* status idle; for a known id the existing session is used as it is;
\* deleting removes the session and is a no-op for an unknown id, so the
\* next message for that id starts from a new session; no other step
\* creates or removes a session.
C27_SessionLifecycle ==
    [][\A t \in SeqTasks, sid \in SeqSessions :
          /\ (\E text \in ConcTexts : ChatStart(t, sid, text, MaxConcTurns)) =>
                /\ sid \in DOMAIN sessions'
                /\ IF sid \notin DOMAIN sessions
                   THEN /\ Len(sessions'[sid].messages) = 1
                        /\ sessions'[sid].meeting_info = EmptyDict
                        /\ sessions'[sid].status = "idle"
                        /\ task'[t].status = "idle"
                        /\ task'[t].meeting_info = EmptyDict
                   ELSE /\ Len(sessions'[sid].messages) = Len(sessions[sid].messages) + 1
                        /\ SubSeq(sessions'[sid].messages, 1, Len(sessions[sid].messages))
                              = sessions[sid].messages
                        /\ sessions'[sid].meeting_info = sessions[sid].meeting_info
                        /\ sessions'[sid].status = sessions[sid].status
                        /\ task'[t].status = sessions[sid].status
                        /\ task'[t].meeting_info = sessions[sid].meeting_info
                /\ sessions'[sid].messages[Len(sessions'[sid].messages)][1] = "user"
          /\ DeleteSession(t, sid) =>
                /\ sid \notin DOMAIN sessions'
                /\ sid \notin DOMAIN sessions => sessions' = sessions
                /\ \A k \in (DOMAIN sessions) \ {sid} :
                       k \in DOMAIN sessions' /\ sessions'[k] = sessions[k]
          /\ (task'[t].pc # "classify_input" /\ task'[t].response # "cleared") =>
                DOMAIN sessions' = DOMAIN sessions
      ]_vars

\* a session that existed has been deleted and its id is unseen again
C27_Witness ==
    \E t \in SeqTasks :
        /\ task[t].response = "cleared"
        /\ task[t].result = "removed"
        /\ task[t].sid \notin DOMAIN sessions

\* entry i of a log is a user message at odd i, a reply at even i
Alternates(msgs) ==
    \A i \in 1..Len(msgs) : msgs[i][1] = IF i % 2 = 1 THEN "user" ELSE "assistant"

\* a is an initial part of b
IsPrefix(a, b) == Len(a) <= Len(b) /\ SubSeq(b, 1, Len(a)) = a

\* C28: the message log of a session is append-only and ordered: a
\* completed turn has appended the user message and then exactly one
\* assistant reply, no step changes, removes or reorders an earlier entry
\* (not the cancellation, not the reset after creation), so with turns
\* handled one after the other the log alternates user, assistant.
C28_LogAppendOnly ==
    /\ [](\A sid \in DOMAIN sessions :
            /\ Alternates(sessions[sid].messages)
            /\ \A t \in SeqTasks :
                  (task[t].sid = sid /\ Ended(t)) =>
                      LET n == Len(sessions[sid].messages)
                      IN /\ n >= 2
                         /\ sessions[sid].messages[n - 1] = <<"user", task[t].text>>
                         /\ sessions[sid].messages[n] = <<"assistant", <<task[t].response>> >>)
    /\ [][\A sid \in (DOMAIN sessions) \cap (DOMAIN sessions') :
              /\ IsPrefix(sessions[sid].messages, sessions'[sid].messages)
              /\ Len(sessions'[sid].messages) <= Len(sessions[sid].messages) + 1
              /\ \A t \in SeqTasks :
                    (task[t].pc # "finish" /\ task'[t].pc # "classify_input") =>
                        sessions'[sid].messages = sessions[sid].messages]_vars

\* C29: every turn that begins eventually ends with a reply, provided each
\* NLU call, connect and procedure call returns or fails: a request that
\* has entered the graph eventually ends, and no request ends abandoned,
\* without its reply returned to the caller.
C29_TurnEndsWithReply ==
    /\ \A t \in SeqTasks : (task[t].pc = "classify_input") ~> Idle(t)
    /\ [](\A t \in SeqTasks : task[t].pc # "aborted")

\* C30: list_tools() never lets a failure out: it returns the empty list
\* when the client has no session and when the list call fails, the tool
\* names otherwise, and no step of it changes the client's connected flag,
\* session handle, stack or resources.
C30_ListToolsQuiet ==
    /\ [](\A p \in SeqTasks :
            (task[p].ctx = "list_tools" /\ task[p].pc = "done") =>
                /\ task[p].result \in {"tools", "empty"}
                /\ task[p].fails # <<>> => task[p].result = "empty"
                /\ client.session = NoId => task[p].result = "empty")
    /\ [][\A p \in SeqTasks :
              task'[p].ctx = "list_tools" =>
                  /\ client' = client
                  /\ stackProcs' = stackProcs
                  /\ stackSess' = stackSess]_vars

\* the list call of list_tools() failed on a connected client: the empty
\* list came back and the client is as it was, connected, its session held
C30_Witness ==
    \E p \in SeqTasks :
        /\ task[p].ctx = "list_tools"
        /\ task[p].pc = "done"
        /\ task[p].fails = <<"list">>
        /\ task[p].result = "empty"
        /\ client.connected
        /\ client.session # NoId
        /\ client.stack # NoId

\* a required field of the slot set is absent, null, "" or []
SomeRequiredUnset(info) ==
    \E f \in {"title", "date", "start_time", "participants"} : Unset(info, f)

\* the turn went through extract_details_node and check_completeness_node
PassedExtract(t) ==
    /\ InSeq("extract_details", task[t].visited)
    /\ InSeq("check_completeness", task[t].visited)

\* C31: a turn routed to extract_details ends with status collecting exactly
\* when one of title, date, start_time, participants is empty after the
\* merge, and with status confirming exactly when none is; it never ends
\* with status error, never enters create_meeting_node and never calls the
\* tool, and the session persisted at its end holds that status.
C31_ExtractEndsByCompleteness ==
    \A t \in SeqTasks :
        (PassedExtract(t) /\ TurnOver(t)) =>
            /\ task[t].status = "collecting" <=> SomeRequiredUnset(task[t].meeting_info)
            /\ task[t].status = "confirming" <=> ~SomeRequiredUnset(task[t].meeting_info)
            /\ task[t].status # "error"
            /\ ~InSeq("create_meeting", task[t].visited)
            /\ task[t].nCalls = 0
            /\ task[t].nAttempts = 0
            /\ task[t].pc \in {"done", "aborted"} =>
                   /\ Persisted(t).status = task[t].status
                   /\ Persisted(t).meeting_info = task[t].meeting_info

\* a turn whose extraction left only the title missing has ended: the
\* status is collecting, ask_missing_node replied and no tool call was made
C31_Witness ==
    \E t \in SeqTasks :
        /\ Ended(t)
        /\ PassedExtract(t)
        /\ _missing_fields(task[t].meeting_info) = <<"title">>
        /\ task[t].status = "collecting"
        /\ task[t].response = "ask"
        /\ task[t].nCalls = 0

\* the log of the session up to the user message of the turn in progress
\* holds the reply of a failed tool call
AfterFailedCall(t) ==
    LET log == sessions[task[t].sid].messages
    IN \E i \in 1..(Len(log) - 1) : log[i] = <<"assistant", <<"failed">> >>

\* C32: after a tool call that failed and left status error with the
\* complete slot set, the user gets to a new tool call with the same slot
\* set without entering anything again: a turn from status error whose
\* extraction is empty re-presents the confirmation with the slot set
\* unchanged, and the confirmation turn that follows calls the tool with it.
C32_RetryReachesTool ==
    \A t \in SeqTasks :
        (task[t].pc = "finish" /\ AfterFailedCall(t) /\ ~SomeRequiredUnset(task[t].info0)) =>
            /\ (task[t].status0 = "error" /\ PassedExtract(t)
                    /\ AllEmptyResult(task[t].parsed)) =>
                   /\ task[t].status = "confirming"
                   /\ task[t].meeting_info = task[t].info0
            /\ ConfirmedTurn(t) =>
                   /\ task[t].meeting_info = task[t].info0
                   /\ task[t].nCalls = 1
                   /\ task[t].nAttempts >= 1

\* the turn has called call_tool, or has a create_meeting procedure attempt
\* behind it or in flight
ToolInvoked(t) ==
    /\ InSeq("create_meeting", task[t].visited)
    /\ task[t].nCalls >= 1 \/ task[t].nAttempts >= 1 \/ task[t].pc = "call"

\* C33: every call_tool call and every create_meeting procedure attempt is
\* made in a turn that started with status confirming and was classified as
\* a confirmation, and the slot set it sends, which is the slot set the
\* session held when the turn started, has title, date, start_time and
\* participants all non-empty.
C33_CreateOnlyWhenComplete ==
    \A t \in SeqTasks :
        ToolInvoked(t) =>
            /\ task[t].status0 = "confirming"
            /\ task[t].intent = "confirmation"
            /\ task[t].meeting_info = task[t].info0
            /\ \A f \in {"title", "date", "start_time", "participants"} :
                   /\ f \in DOMAIN task[t].meeting_info
                   /\ Truthy(task[t].meeting_info[f])
            /\ _missing_fields(task[t].meeting_info) = <<>>

\* a procedure attempt is in flight for a slot set that an earlier turn
\* completed by adding the title
C33_Witness ==
    \E t \in SeqTasks :
        /\ task[t].pc = "call"
        /\ task[t].nAttempts = 1
        /\ task[t].status0 = "confirming"
        /\ Len(sessions[task[t].sid].messages) = 5
        /\ Get(task[t].meeting_info, "title") = Str(<<"Project Sync">>)
        /\ Get(task[t].meeting_info, "participants") = List(<<"a@b.com">>)

\* the request is over and chat has written the session
Written(t) == task[t].pc \in {"done", "aborted"}

\* C34: whenever a session is stored with status confirming, title, date,
\* start_time and participants are all present and non-empty in its slot
\* set; and the session written at the end of a cancelled turn or of a
\* turn whose tool call succeeded has status idle and an empty slot set.
C34_PersistedConsistent ==
    /\ \A sid \in DOMAIN sessions :
           sessions[sid].status = "confirming" =>
               /\ ~SomeRequiredUnset(sessions[sid].meeting_info)
               /\ \A f \in {"title", "date", "start_time", "participants"} :
                      Truthy(Get(sessions[sid].meeting_info, f))
    /\ \A t \in SeqTasks :
           (Written(t) /\ (task[t].response = "cancelled" \/ task[t].result = "ok")) =>
               /\ Persisted(t).status = "idle"
               /\ Persisted(t).meeting_info = EmptyDict

\* the second turn of a session completed the slot set: the session is
\* stored with status confirming and all four required fields
C34_Witness ==
    \E t \in SeqTasks :
        /\ Written(t)
        /\ Len(Persisted(t).messages) = 4
        /\ task[t].status0 = "collecting"
        /\ SomeRequiredUnset(task[t].info0)
        /\ Persisted(t).status = "confirming"
        /\ _missing_fields(Persisted(t).meeting_info) = <<>>

\* C35: one confirmed turn leaves at most one meeting at the provider: the
\* turn makes one call_tool call, and when call_tool retries after a failed
\* first attempt, also one the provider had executed before the failure,
\* the calendar holds one event for the turn, not two.
C35_OneMeetingPerTurn ==
    \A t \in SeqTasks :
        ConfirmedTurn(t) =>
            /\ task[t].nCalls <= 1
            /\ task[t].created <= 1

\* C36: under concurrent call_tool invocations on the shared client, no
\* reconnect started by one invocation closes the connection another
\* invocation has a procedure attempt in flight on: the session of every
\* attempt in flight stays open until the attempt is answered.
C36_ReconnectSparesOthers ==
    \A t \in ConcTasks :
        task[t].pc = "call" => SessOpen(Machine(t), task[t].onSess)

\* no extraction has supplied the end_time of the slot set: it has none, or
\* the one derived from its start_time
EndOnlyDerived(info) ==
    \/ Unset(info, "end_time")
    \/ /\ Strptime(Get(info, "start_time")) >= 0
       /\ info["end_time"] = PlusOneHour(Strptime(Get(info, "start_time")))

\* C37: as long as no extraction has supplied an end_time for the meeting
\* being assembled, after every Extract step that leaves a valid start_time
\* the end_time of the slot set is start_time plus one hour, also when the
\* extraction of a later turn replaced start_time by another value.
C37_EndFollowsStart ==
    \A t \in SeqTasks :
        LET new == task[t].meeting_info
        IN (Extracted(t) /\ EndOnlyDerived(task[t].info0)
                /\ Unset(task[t].parsed, "end_time")
                /\ Strptime(Get(new, "start_time")) >= 0) =>
            Get(new, "end_time") = PlusOneHour(Strptime(Get(new, "start_time")))

\* C38: a turn that starts with status confirming and is routed to
\* extract_details (classified new_request or modification) keeps every
\* required field non-empty whatever the extraction returned, goes on to
\* present_confirmation and not to ask_missing, and ends with status
\* confirming, which chat stores with the complete slot set.
C38_ConfirmingStaysConfirming ==
    \A t \in SeqTasks :
        (task[t].status0 = "confirming" /\ Extracted(t)) =>
            /\ \A f \in {"title", "date", "start_time", "participants"} :
                   /\ ~Unset(task[t].info0, f)
                   /\ ~Unset(task[t].meeting_info, f)
            /\ ~InSeq("ask_missing", task[t].visited)
            /\ (TurnOver(t) /\ PassedExtract(t)) =>
                   /\ InSeq("present_confirmation", task[t].visited)
                   /\ task[t].status = "confirming"
                   /\ task[t].response = "confirm"
            /\ Written(t) =>
                   /\ Persisted(t).status = "confirming"
                   /\ _missing_fields(Persisted(t).meeting_info) = <<>>

\* from status confirming a turn whose extraction returned null, "" and []
\* for title, date and participants has ended: the confirmation was
\* presented again, with the slot set of before
C38_Witness ==
    \E t \in SeqTasks :
        /\ Ended(t)
        /\ task[t].status0 = "confirming"
        /\ Extracted(t)
        /\ "title" \in DOMAIN task[t].parsed
        /\ AllEmptyResult(task[t].parsed)
        /\ task[t].response = "confirm"
        /\ Persisted(t).status = "confirming"
        /\ Persisted(t).meeting_info = task[t].info0

\* no method of the client is running
ClientAtRest ==
    /\ \A p \in SeqTasks : task[p].pc \in {"idle", "done"}
    /\ task[Main].pc \in {"boot", "serving", "stopped"}

\* C39: whenever no connect, disconnect, call_tool or list_tools call is in
\* progress, after any sequence of such calls with any failures, the client
\* is connected exactly when it holds both a session and a stack, and not
\* connected exactly when it holds neither: the three fields are set
\* together or cleared together.
C39_ClientConsistent ==
    ClientAtRest =>
        /\ client.connected <=> (client.session # NoId /\ client.stack # NoId)
        /\ ~client.connected <=> (client.session = NoId /\ client.stack = NoId)
        /\ client.connected =>
               /\ client.session \in stackSess[client.stack]
               /\ stackProcs[client.stack] # {}

\* call_tool has returned after a failed first attempt and a reconnect: the
\* client is at rest with the flag up and a new session and stack in hand
C39_Witness ==
    \E p \in SeqTasks :
        /\ ClientAtRest
        /\ task[p].pc = "done"
        /\ task[p].nCalls = 1
        /\ task[p].nReconnects = 1
        /\ task[p].fails # <<>>
        /\ client.connected
        /\ client.session # NoId
        /\ client.stack # NoId

\* ------------------------------------------------------- the specifications
Step(Ts, Ss, Txs, Is, Ps, Raws, Tears, cap) ==
    \/ \E ok \in BOOLEAN : Startup(ok)
    \/ Shutdown
    \/ \E t \in Ts, sid \in Ss, text \in Txs : ChatStart(t, sid, text, cap)
    \/ \E t \in Ts, intent \in Is : ClassifyInput(t, intent)
    \/ \E t \in Ts, parsed \in Ps : ExtractDetails(t, parsed)
    \/ \E t \in Ts : CheckCompleteness(t)
    \/ \E t \in Ts : AskMissing(t)
    \/ \E t \in Ts : PresentConfirmation(t)
    \/ \E t \in Ts, raw \in Raws : GeneralResponse(t, raw)
    \/ \E t \in Ts, ok \in BOOLEAN : CreateMeeting(t, ok)
    \/ \E t \in Ts : ChatFinish(t)
    \/ \E p \in Ts \cup {Main}, ok \in BOOLEAN : SpawnDone(p, ok)
    \/ \E p \in Ts \cup {Main}, ok \in BOOLEAN : SessionDone(p, ok)
    \/ \E p \in Ts \cup {Main}, ok \in BOOLEAN : InitDone(p, ok)
    \/ \E p \in Ts \cup {Main}, ok \in BOOLEAN : ListDone(p, ok)
    \/ \E p \in Ts \cup {Main} : CleanupDone(p)
    \/ \E p \in Ts \cup {Main}, ok \in Tears, sc \in BOOLEAN : DisconnectDone(p, ok, sc)
    \/ \E p \in Ts, o \in CallOutcomes, ok \in BOOLEAN : CallDone(p, o, ok)

\* one request at a time, the extraction model answering with a JSON object
\* of strings and lists
Next ==
    Step(SeqTasks, SeqSessions, Texts, Intents, ParsedInputs, LlmReplies, BOOLEAN, MaxTurns)
Spec == Init /\ [][Next]_vars

\* requests handled concurrently on one event loop
NextConc ==
    Step(ConcTasks, ConcSessions, ConcTexts, ConcIntents, ConcParsedInputs, ConcLlmReplies,
         ConcTeardowns, MaxConcTurns)
SpecConc == Init /\ [][NextConc]_vars

\* the steps of one request: its graph nodes, the completions of the calls
\* it awaits, and the end of the chat handler
TurnStep(t) ==
    \/ \E intent \in ConcIntents : ClassifyInput(t, intent)
    \/ \E parsed \in LiveParsedInputs : ExtractDetails(t, parsed)
    \/ GraphFailed(t)
    \/ CheckCompleteness(t)
    \/ AskMissing(t)
    \/ PresentConfirmation(t)
    \/ \E raw \in ConcLlmReplies : GeneralResponse(t, raw)
    \/ \E ok \in BOOLEAN : CreateMeeting(t, ok)
    \/ ChatFinish(t)
    \/ \E ok \in BOOLEAN : SpawnDone(t, ok)
    \/ \E ok \in BOOLEAN : SessionDone(t, ok)
    \/ \E ok \in BOOLEAN : InitDone(t, ok)
    \/ \E ok \in BOOLEAN : ListDone(t, ok)
    \/ CleanupDone(t)
    \/ \E ok \in ConcTeardowns, sc \in BOOLEAN : DisconnectDone(t, ok, sc)
    \/ \E o \in CallOutcomes, ok \in BOOLEAN : CallDone(t, o, ok)

\* one request at a time, chat or delete, the extraction model answering
\* with any JSON value, on an event loop that runs every coroutine that is
\* ready, every awaited call returning or failing
NextLive ==
    \/ Step(SeqTasks, SeqSessions, ConcTexts, ConcIntents, LiveParsedInputs, ConcLlmReplies,
            ConcTeardowns, MaxConcTurns)
    \/ \E t \in SeqTasks : GraphFailed(t)
    \/ \E t \in SeqTasks, sid \in SeqSessions : DeleteSession(t, sid)
SpecLive == Init /\ [][NextLive]_vars /\ \A t \in SeqTasks : WF_vars(TurnStep(t))

\* one request at a time over a longer conversation: a meeting assembled,
\* confirmed, its creation failed, presented and confirmed again
NextRetry ==
    Step(SeqTasks, SeqSessions, ConcTexts, ConcIntents, ConcParsedInputs, ConcLlmReplies,
         ConcTeardowns, MaxRetryTurns)
SpecRetry == Init /\ [][NextRetry]_vars

\* one request at a time, the provider's execution of a request a step of
\* its own between the request and its answer
NextProvider ==
    \/ Step(SeqTasks, SeqSessions, ConcTexts, ConcIntents, ConcParsedInputs, ConcLlmReplies,
            ConcTeardowns, MaxConcTurns)
    \/ \E t \in SeqTasks : ProviderCreate(t)
SpecProvider == Init /\ [][NextProvider]_vars

\* one request at a time, no extraction carrying an end_time, one of them
\* moving the meeting to another start_time
NextReschedule ==
    Step(SeqTasks, SeqSessions, ConcTexts, ConcIntents, RescheduleInputs, ConcLlmReplies,
         ConcTeardowns, MaxConcTurns)
SpecReschedule == Init /\ [][NextReschedule]_vars

\* the client alone, its methods called in any order by one caller
NextClient ==
    \/ \E p \in SeqTasks, ok \in BOOLEAN : DirectConnect(p, ok)
    \/ \E p \in SeqTasks : DirectDisconnect(p)
    \/ \E p \in SeqTasks, ok \in BOOLEAN : DirectCallTool(p, ok)
    \/ \E p \in SeqTasks, ok \in BOOLEAN : SpawnDone(p, ok)
    \/ \E p \in SeqTasks, ok \in BOOLEAN : SessionDone(p, ok)
    \/ \E p \in SeqTasks, ok \in BOOLEAN : InitDone(p, ok)
    \/ \E p \in SeqTasks, ok \in BOOLEAN : ListDone(p, ok)
    \/ \E p \in SeqTasks : CleanupDone(p)
    \/ \E p \in SeqTasks, ok \in BOOLEAN, sc \in BOOLEAN : DisconnectDone(p, ok, sc)
    \/ \E p \in SeqTasks, o \in CallOutcomes, ok \in BOOLEAN : CallDone(p, o, ok)
    \/ \E p \in SeqTasks : DirectListTools(p)
    \/ \E p \in SeqTasks, ok \in BOOLEAN : ListToolsDone(p, ok)
SpecClient == Init /\ [][NextClient]_vars

\* the nodes alone: a turn of session s1 stands at the node the router
\* chose, with any slot set in hand, and runs to the end of the request
InitSlots ==
    /\ client = NewClient
    /\ stackProcs = [s \in StackIds |-> {}]
    /\ stackSess = [s \in StackIds |-> {}]
    /\ \E x \in NodeStarts :
          /\ sessions = [s \in SeqSessions |->
                            [messages |-> << <<"user", x.text>> >>,
                             meeting_info |-> x.info, status |-> x.status]]
          /\ task = [p \in AllTasks |->
                    IF p \in SeqTasks
                    THEN [NewTask EXCEPT !.pc = x.pc, !.sid = "s1", !.text = x.text,
                                         !.intent = x.intent,
                                         !.status = x.status, !.meeting_info = x.info,
                                         !.status0 = x.status, !.info0 = x.info,
                                         !.visited = <<"classify_input">>]
                    ELSE IF p = Main THEN [NewTask EXCEPT !.pc = "serving"] ELSE NewTask]
NextSlots ==
    \/ \E t \in SeqTasks, parsed \in SlotParsed : ExtractDetails(t, parsed)
    \/ \E t \in SeqTasks : CheckCompleteness(t)
    \/ \E t \in SeqTasks : AskMissing(t)
    \/ \E t \in SeqTasks : PresentConfirmation(t)
    \/ \E t \in SeqTasks, raw \in LlmReplies : GeneralResponse(t, raw)
    \/ \E t \in SeqTasks : ChatFinish(t)
SpecSlots == InitSlots /\ [][NextSlots]_vars
====
